---- MODULE Spec2Model ----
(***************************************************************************)
(* Ticket orchestration daemon (scripts/claude-daemon.py) and its context  *)
(* compaction engine (scripts/smart_context.py).                           *)
(*                                                                         *)
(* The store's tables are variables; every worker thread, the scheduler    *)
(* thread and every agent subprocess has a position.  Time is in minutes.  *)
(***************************************************************************)
EXTENDS Integers, Sequences, FiniteSets, TLC

VARIABLES
    projects,        \* table projects: id -> status
    knowledge,       \* table project_knowledge: project id -> its row
    daemon_status,   \* table daemon_status: the status of row 1
    usage,           \* the token columns: execution_sessions.tokens_used,
                     \* tickets.total_tokens, projects.total_tokens
    tickets,         \* table tickets: id -> row
    sessions,        \* table execution_sessions: ticket id -> its rows, oldest first
    messages,        \* table conversation_messages: ticket id -> its rows, oldest first
    user_messages,   \* table user_messages (the inbox): ticket id -> its rows
    extractions,     \* table conversation_extractions
    history,         \* the last get_smart_history call: its ticket, the number of
                     \* messages the ticket had, the rows it returned
    daemon_running,  \* ClaudeDaemon.running (the process-wide stop flag)
    sched,           \* the scheduler thread: position and locals of ClaudeDaemon.run
    workers,         \* ClaudeDaemon.workers: project id -> thread (0 = no entry)
    threads,         \* the ProjectWorker objects this daemon process created:
                     \* project id -> its threads, oldest first
    procs,           \* agent subprocesses ever spawned: project id -> processes
    now,             \* wall clock, minutes
    starts           \* number of times the daemon process was started

vars == <<projects, knowledge, daemon_status, usage, tickets, sessions, messages, user_messages, extractions, history,
          daemon_running, sched, workers, threads, procs, now, starts>>

storeVars == <<projects, knowledge, daemon_status, usage, tickets, sessions, messages, user_messages, extractions, history>>

(***************************************************************************)
(* Program constants                                                       *)
(***************************************************************************)
STUCK_TIMEOUT_MINUTES == 30
REVIEW_DAYS == 7
MINUTES_PER_DAY == 24 * 60
SAVE_MESSAGE_MAX_CHARS == 50000

(***************************************************************************)
(* Bounds of the model                                                     *)
(***************************************************************************)
MaxTickets == 4
MaxSessions == 2
MaxThreads == 2
MaxProcs == 2
MaxLines == 2
MaxUserMsgs == 2
MaxStarts == 2
MaxTicks == 2
MaxHist == 7
MaxNotes == 22

TicketIds == 1..MaxTickets

Priorities == {"critical", "high", "medium", "low"}
Runnable == {"open", "new", "pending"}
TicketStatus == {"open", "new", "pending", "in_progress", "awaiting_input",
                 "done", "stuck", "failed"}
SessionStatus == {"running", "completed", "stuck", "failed", "skipped", "stopped"}

None == 0

Min(a, b) == IF a <= b THEN a ELSE b

RECURSIVE SumSeq(_)
SumSeq(s) == IF s = <<>> THEN 0 ELSE Head(s) + SumSeq(Tail(s))

(***************************************************************************)
(* Store operations of ProjectWorker                                       *)
(***************************************************************************)

\* CASE t.priority WHEN 'critical' THEN 1 ... WHEN 'low' THEN 4 END
PriorityRank(p) ==
    CASE p = "critical" -> 1
      [] p = "high" -> 2
      [] p = "medium" -> 3
      [] p = "low" -> 4

RunnableOfNotPending(T, pid) ==
    {t \in DOMAIN T : T[t].project_id = pid /\ T[t].status \in {"new", "open"}}

\* the tickets of a project that get_next_ticket and the scheduler's query
\* select
RunnableOf(T, pid) ==
    {t \in DOMAIN T : T[t].project_id = pid /\ T[t].status \in Runnable}

BeforeByAge(T, a, b) == T[a].created_at < T[b].created_at

Before(T, a, b) ==
    \/ PriorityRank(T[a].priority) < PriorityRank(T[b].priority)
    \/ /\ PriorityRank(T[a].priority) = PriorityRank(T[b].priority)
       /\ T[a].created_at < T[b].created_at

\* The rows the query of get_next_ticket may return as its first row:
\* ORDER BY rank, created_at ASC LIMIT 1 (rows that tie are in no defined order).
get_next_ticket(T, pid) ==
    {t \in RunnableOf(T, pid) : \A u \in RunnableOf(T, pid) : ~Before(T, u, t)}

update_ticket_as_given(T, t, status, clock) == [T EXCEPT ![t].status = status]

\* update_ticket(ticket_id, status): 'done' is stored as awaiting_input with a
\* review deadline; any other status is stored as given, the deadline untouched.
update_ticket(T, t, status, clock) ==
    IF status = "done"
    THEN [T EXCEPT ![t].status = "awaiting_input",
                   ![t].review_deadline = clock + REVIEW_DAYS * MINUTES_PER_DAY]
    ELSE [T EXCEPT ![t].status = status]

\* create_session: INSERT ... VALUES (ticket_id, 'running', NOW())
create_session(S, t) == [S EXCEPT ![t] = Append(@, "running")]

\* end_session: UPDATE execution_sessions SET status = %s WHERE id = %s
\* (session_id None matches no row)
end_session(S, t, sid, status) ==
    IF sid \in DOMAIN S[t] THEN [S EXCEPT ![t][sid] = status] ELSE S

\* the token columns of a store in which nothing has been counted
NoUsage ==
    [sessions |-> [t \in TicketIds |-> [i \in 1..MaxSessions |-> 0]],
     tickets |-> [t \in TicketIds |-> 0],
     projects |-> [p \in DOMAIN projects |-> 0]]

\* save_usage_stats: nothing without a current ticket; total_tokens is added
\* to the totals of the ticket and of the project (one transaction)
save_usage_stats(G, pid, t, total_tokens) ==
    IF t = None THEN G
    ELSE [G EXCEPT !.tickets[t] = @ + total_tokens,
                   !.projects[pid] = @ + total_tokens]

\* end_session: UPDATE execution_sessions SET ... tokens_used = %s WHERE id = %s
end_session_tokens(G, S, t, sid, total_tokens) ==
    IF sid \in DOMAIN S[t] THEN [G EXCEPT !.sessions[t][sid] = total_tokens] ELSE G

\* save_message: nothing without a current ticket; content cut to 50000 chars
save_message(M, t, sid, role, chars) ==
    IF t = None THEN M
    ELSE [M EXCEPT ![t] = Append(@, [session_id |-> sid, role |-> role,
                    chars |-> Min(chars, SAVE_MESSAGE_MAX_CHARS),
                    token_count |-> 0, is_summarized |-> FALSE])]

\* the unprocessed inbox rows of a ticket, in insertion order
PendingIds(U, t) == {i \in DOMAIN U[t] : ~U[t][i].processed}

MarkProcessedAllPending(U, t, ids) ==
    [U EXCEPT ![t] = [i \in DOMAIN @ |-> [@[i] EXCEPT !.processed = TRUE]]]

\* get_pending_user_messages: the rows it returns are marked processed
MarkProcessed(U, t, ids) ==
    [U EXCEPT ![t] = [i \in DOMAIN @ |->
                        IF i \in ids THEN [@[i] EXCEPT !.processed = TRUE] ELSE @[i]]]


(***************************************************************************)
(* ProjectWorker: one thread per project                                   *)
(***************************************************************************)

NewThread(pid) ==
    [project_id |-> pid, alive |-> TRUE, running |-> TRUE, pc |-> "loop",
     ticket |-> None, session |-> None, proc |-> None, result |-> "none",
     end_status |-> "none", last_activity |-> 0, history |-> <<>>,
     session_tokens |-> 0, polled |-> {}]

\* a thread whose run() has returned
DeadThread(th) ==
    [th EXCEPT !.alive = FALSE, !.pc = "dead", !.ticket = None, !.session = None,
               !.proc = None, !.result = "none", !.end_status = "none",
               !.last_activity = 0, !.history = <<>>, !.session_tokens = 0,
               !.polled = {}]

\* a worker thread is named <<project id, index>>
ThreadIds == UNION {{<<p, k>> : k \in DOMAIN threads[p]} : p \in DOMAIN threads}

Th(w) == threads[w[1]][w[2]]

At(w, pc) == w \in ThreadIds /\ Th(w).alive /\ Th(w).pc = pc

ControlCommands == {"/skip", "/done", "/stop"}
UserContents == {"/skip", "/done", "/stop", "feedback"}
IsSlash(c) == c \in ControlCommands

SaveFeedbackNone(M, U, ids, t, sid) == M

\* the feedback rows among ids, in inbox order, saved as user messages
RECURSIVE SaveFeedback(_, _, _, _, _)
SaveFeedback(M, U, ids, t, sid) ==
    IF ids = {} THEN M
    ELSE LET i == CHOOSE j \in ids : \A k \in ids : j <= k
             M1 == IF IsSlash(U[t][i].content) THEN M
                   ELSE save_message(M, t, sid, "user", 100)
         IN SaveFeedback(M1, U, ids \ {i}, t, sid)

\* ProjectWorker.run, loop head: the while condition, get_next_ticket and the
\* first statements of process_ticket (current_ticket_id, create_session,
\* last_activity).
WorkerLoop(w) ==
    /\ At(w, "loop")
    /\ LET th == Th(w) IN
       IF ~(th.running /\ daemon_running)
       THEN /\ threads' = [threads EXCEPT ![w[1]][w[2]] = DeadThread(th)]
            /\ UNCHANGED sessions
       ELSE IF get_next_ticket(tickets, th.project_id) = {}
       THEN /\ threads' = [threads EXCEPT ![w[1]][w[2]].pc = "sleep"]
            /\ UNCHANGED sessions
       ELSE \E t \in get_next_ticket(tickets, th.project_id) :
                 /\ Len(sessions[t]) < MaxSessions
                 /\ sessions' = create_session(sessions, t)
                 /\ threads' = [threads EXCEPT ![w[1]][w[2]] =
                        [th EXCEPT !.pc = "start", !.ticket = t,
                                   !.session = Len(sessions[t]) + 1,
                                   !.last_activity = now,
                                   !.session_tokens = 0]]
    /\ UNCHANGED <<projects, knowledge, daemon_status, usage, tickets, messages, user_messages, extractions, history,
                   daemon_running, sched, workers, procs, now, starts>>

\* ProjectWorker.run after time.sleep(POLL_INTERVAL): a second get_next_ticket;
\* no ticket ends the thread, a ticket goes round the loop.
WorkerRecheck(w) ==
    /\ At(w, "sleep")
    /\ threads' = [threads EXCEPT ![w[1]][w[2]] =
          IF get_next_ticket(tickets, w[1]) = {}
          THEN DeadThread(@) ELSE [@ EXCEPT !.pc = "loop"]]
    /\ UNCHANGED <<storeVars, daemon_running, sched, workers, procs, now, starts>>

HasMessages(M, t) == M[t] # <<>>

\* get_conversation_history: every row of the ticket, oldest first (the ids)
get_conversation_history(M, t) == [i \in 1..Len(M[t]) |-> i]

\* process_ticket: update_ticket(in_progress), the history is loaded and seeded
\* with the task when it is empty.
WorkerStart(w) ==
    /\ At(w, "start")
    /\ LET th == Th(w) IN
       /\ tickets' = update_ticket(tickets, th.ticket, "in_progress", now)
       /\ messages' = IF HasMessages(messages, th.ticket) THEN messages
                      ELSE save_message(messages, th.ticket, th.session, "user", 100)
       /\ threads' = [threads EXCEPT ![w[1]][w[2]] =
              [th EXCEPT !.pc = "spawn",
                         !.last_activity = IF HasMessages(messages, th.ticket)
                                           THEN @ ELSE now,
                         !.history = get_conversation_history(messages', th.ticket)]]
    /\ UNCHANGED <<projects, knowledge, daemon_status, usage, sessions, user_messages, extractions, history,
                   daemon_running, sched, workers, procs, now, starts>>

\* run_claude: subprocess.Popen
WorkerSpawn(w) ==
    /\ At(w, "spawn")
    /\ Len(procs[Th(w).project_id]) < MaxProcs
    /\ procs' = [procs EXCEPT ![Th(w).project_id] =
                    Append(@, [state |-> "running", lines |-> 0, code |-> 0])]
    /\ threads' = [threads EXCEPT ![w[1]][w[2]] =
          [@ EXCEPT !.pc = "poll", !.proc = Len(procs[Th(w).project_id]) + 1,
                    !.result = "none"]]
    /\ UNCHANGED <<storeVars, daemon_running, sched, workers, now, starts>>

\* run_claude: Popen raises (no executable, no directory): 'failed'
WorkerSpawnFail(w) ==
    /\ At(w, "spawn")
    /\ threads' = [threads EXCEPT ![w[1]][w[2]] =
          [@ EXCEPT !.pc = "outcome", !.proc = None, !.result = "failed"]]
    /\ UNCHANGED <<storeVars, daemon_running, sched, workers, procs, now, starts>>

\* process.terminate(): SIGTERM is sent; the call does not wait for the exit
terminate(P, pid, p) ==
    IF p \in DOMAIN P[pid] /\ P[pid][p].state = "running"
    THEN [P EXCEPT ![pid][p].state = "terminating"] ELSE P

\* the first control command of a poll batch, "none" without one
FirstControl(U, t, ids) ==
    LET cs == {i \in ids : U[t][i].content \in ControlCommands}
    IN IF cs = {} THEN "none"
       ELSE U[t][CHOOSE i \in cs : \A j \in cs : i <= j].content

ControlOutcomeSkipInterrupts(c) ==
    CASE c = "/skip" -> "interrupted"
      [] c = "/done" -> "completed"
      [] c = "/stop" -> "interrupted"

ControlOutcome(c) ==
    CASE c = "/skip" -> "skipped"
      [] c = "/done" -> "completed"
      [] c = "/stop" -> "interrupted"

\* run_claude, first half of one loop iteration: the inbox poll (every row it
\* returns is marked processed, the first control command ends the run) and
\* the stop flags.
WorkerPoll(w) ==
    /\ At(w, "poll")
    /\ LET th == Th(w)
           ids == PendingIds(user_messages, th.ticket)
           c == FirstControl(user_messages, th.ticket, ids)
       IN /\ user_messages' = MarkProcessed(user_messages, th.ticket, ids)
          /\ IF c # "none"
             THEN /\ procs' = terminate(procs, th.project_id, th.proc)
                  /\ threads' = [threads EXCEPT ![w[1]][w[2]] =
                        [th EXCEPT !.pc = "outcome", !.result = ControlOutcome(c)]]
             ELSE IF ~th.running \/ ~daemon_running
             THEN /\ procs' = terminate(procs, th.project_id, th.proc)
                  /\ threads' = [threads EXCEPT ![w[1]][w[2]] =
                        [th EXCEPT !.pc = "outcome", !.result = "stopped"]]
             ELSE /\ procs' = procs
                  /\ threads' = [threads EXCEPT ![w[1]][w[2]].pc = "readline"]
    /\ UNCHANGED <<projects, knowledge, daemon_status, usage, tickets, sessions, messages, extractions, history,
                   daemon_running, sched, workers, now, starts>>

LineKinds == {"text", "marker", "tool_use", "result", "error", "garbage", "nonobject"}

\* parse_claude_output: the message a line persists ("none": no message)
LineRole(kind) ==
    CASE kind \in {"text", "marker"} -> "assistant"
      [] kind = "tool_use" -> "tool_use"
      [] kind = "result" -> "tool_result"
      [] kind = "error" -> "system"
      [] OTHER -> "none"

\* the input_tokens + output_tokens of the usage of an assistant event
USAGE_TOKENS == 10

\* parse_claude_output: what a line adds to session_input_tokens and
\* session_output_tokens together
UsageOf(kind) == IF kind \in {"text", "marker", "tool_use"} THEN USAGE_TOKENS ELSE 0

\* parse_claude_output: 'completed' for an assistant text with the marker
parse_claude_output(kind) == IF kind = "marker" THEN "completed" ELSE "none"

\* json.loads gives a value that is no dict: data.get raises AttributeError,
\* which parse_claude_output does not catch
ParseRaises(kind) == kind = "nonobject"

Stuck(last_activity, clock) == clock - last_activity > STUCK_TIMEOUT_MINUTES

\* run_claude, second half of one loop iteration: readline, parse, stuck check
WorkerReadLine(w, kind) ==
    /\ At(w, "readline")
    /\ LET th == Th(w)
           pid == th.project_id
           p == th.proc
           role == LineRole(kind)
           la == IF role = "none" THEN th.last_activity ELSE now
           res == IF parse_claude_output(kind) # "none"
                  THEN parse_claude_output(kind) ELSE th.result
       IN /\ procs[pid][p].state # "exited"
          /\ procs[pid][p].lines < MaxLines
          /\ messages' = IF role = "none" THEN messages
                         ELSE save_message(messages, th.ticket, th.session, role, 100)
          /\ IF ParseRaises(kind)
             THEN /\ procs' = [procs EXCEPT ![pid][p].lines = @ + 1]
                  /\ threads' = [threads EXCEPT ![w[1]][w[2]] =
                        [th EXCEPT !.pc = "outcome", !.result = "failed"]]
             ELSE IF Stuck(la, now)
             THEN /\ procs' = terminate([procs EXCEPT ![pid][p].lines = @ + 1], pid, p)
                  /\ threads' = [threads EXCEPT ![w[1]][w[2]] =
                        [th EXCEPT !.pc = "outcome", !.result = "stuck",
                                   !.last_activity = la,
                                   !.session_tokens = @ + UsageOf(kind)]]
             ELSE /\ procs' = [procs EXCEPT ![pid][p].lines = @ + 1]
                  /\ threads' = [threads EXCEPT ![w[1]][w[2]] =
                        [th EXCEPT !.pc = "poll", !.result = res,
                                   !.last_activity = la,
                                   !.session_tokens = @ + UsageOf(kind)]]
    /\ UNCHANGED <<projects, knowledge, daemon_status, usage, tickets, sessions, user_messages, extractions, history,
                   daemon_running, sched, workers, now, starts>>

\* run_claude: readline gives '' and the process has exited: the loop ends,
\* the outcome is result, else by the exit code
WorkerReadEOF(w) ==
    /\ At(w, "readline")
    /\ LET th == Th(w)
           p == th.proc
           pid == th.project_id
       IN /\ procs[pid][p].state = "exited"
          /\ threads' = [threads EXCEPT ![w[1]][w[2]] =
                [th EXCEPT !.pc = "outcome",
                           !.result = IF th.result # "none" THEN th.result
                                      ELSE IF procs[pid][p].code = 0 THEN "success"
                                      ELSE "failed"]]
    /\ UNCHANGED <<storeVars, daemon_running, sched, workers, procs, now, starts>>

\* the agent subprocess exits (by itself, or after SIGTERM)
AgentExit(pid, p, code) ==
    /\ p \in DOMAIN procs[pid]
    /\ procs[pid][p].state \in {"running", "terminating"}
    /\ procs[pid][p].state = "terminating" => code = 1
    /\ procs' = [procs EXCEPT ![pid][p] = [state |-> "exited", lines |-> 0, code |-> code]]
    /\ UNCHANGED <<storeVars, daemon_running, sched, workers, threads, now, starts>>

TicketStatusForStoppedOpen(result) ==
    CASE result = "interrupted" -> "open"
      [] result = "completed" -> "done"
      [] result = "skipped" -> "open"
      [] result = "stuck" -> "stuck"
      [] result = "stopped" -> "open"
      [] OTHER -> "failed"

\* process_ticket: the status it hands to update_ticket for a result of
\* run_claude
TicketStatusFor(result) ==
    CASE result = "interrupted" -> "open"
      [] result = "completed" -> "done"
      [] result = "skipped" -> "open"
      [] result = "stuck" -> "stuck"
      [] result = "stopped" -> "pending"
      [] OTHER -> "failed"

SessionStatusForFailedStopped(result) ==
    CASE result = "interrupted" -> "stopped"
      [] result = "completed" -> "completed"
      [] result = "skipped" -> "skipped"
      [] result = "stuck" -> "stuck"
      [] OTHER -> "stopped"

\* process_ticket: the status it hands to end_session for a result of
\* run_claude
SessionStatusFor(result) ==
    CASE result = "interrupted" -> "stopped"
      [] result = "completed" -> "completed"
      [] result = "skipped" -> "skipped"
      [] result = "stuck" -> "stuck"
      [] result = "stopped" -> "stopped"
      [] OTHER -> "failed"

RunsAgainAfterStopOnly(result, ids) == result = "interrupted" /\ ids # {}

\* process_ticket: after 'interrupted' and after 'completed' it polls the inbox
\* and continues the loop when the poll returns rows
RunsAgain(result, ids) == result \in {"interrupted", "completed"} /\ ids # {}

\* process_ticket: the branch on run_claude's result
WorkerOutcome(w) ==
    /\ At(w, "outcome")
    /\ LET th == Th(w)
           t == th.ticket
           ids == PendingIds(user_messages, t)
           again == RunsAgain(th.result, ids)
           status == TicketStatusFor(th.result)
           ends == SessionStatusFor(th.result)
       IN IF again
          THEN /\ user_messages' = MarkProcessed(user_messages, t, ids)
               /\ messages' = SaveFeedback(messages, user_messages, ids, t, th.session)
               /\ threads' = [threads EXCEPT ![w[1]][w[2]] =
                     [th EXCEPT !.pc = "spawn",
                                !.last_activity =
                                    IF \E i \in ids : ~IsSlash(user_messages[t][i].content)
                                    THEN now ELSE @,
                                !.history = get_conversation_history(messages', t)]]
               /\ UNCHANGED tickets
          ELSE /\ tickets' = update_ticket(tickets, t, status, now)
               /\ threads' = [threads EXCEPT ![w[1]][w[2]] =
                     [th EXCEPT !.pc = "end", !.end_status = ends]]
               /\ UNCHANGED <<user_messages, messages>>
    /\ UNCHANGED <<projects, knowledge, daemon_status, usage, sessions, extractions, history,
                   daemon_running, sched, workers, procs, now, starts>>

\* process_ticket: end_session (save_usage_stats, then the UPDATE of the
\* session), then the in-memory pointers are cleared
WorkerEndSession(w) ==
    /\ At(w, "end")
    /\ sessions' = end_session(sessions, Th(w).ticket, Th(w).session,
                                Th(w).end_status)
    /\ usage' = end_session_tokens(
                    save_usage_stats(usage, Th(w).project_id, Th(w).ticket,
                                     Th(w).session_tokens),
                    sessions, Th(w).ticket, Th(w).session, Th(w).session_tokens)
    /\ threads' = [threads EXCEPT ![w[1]][w[2]] =
          [@ EXCEPT !.pc = "loop", !.ticket = None, !.session = None,
                    !.proc = None, !.result = "none", !.end_status = "none",
                    !.history = <<>>]]
    /\ UNCHANGED <<projects, knowledge, daemon_status, tickets, messages, user_messages, extractions, history,
                   daemon_running, sched, workers, procs, now, starts>>


(***************************************************************************)
(* ClaudeDaemon: the scheduler thread                                      *)
(***************************************************************************)

is_alive(pid, k) == k \in DOMAIN threads[pid] /\ threads[pid][k].alive

SchedAt(pc) == sched.pc = pc

\* recover_orphaned_tickets: one transaction, two UPDATEs
recover_tickets_pending(T) ==
    [t \in DOMAIN T |-> IF T[t].status \in {"in_progress", "pending"}
                        THEN [T[t] EXCEPT !.status = "open"] ELSE T[t]]

recover_tickets(T) ==
    [t \in DOMAIN T |-> IF T[t].status = "in_progress"
                        THEN [T[t] EXCEPT !.status = "open"] ELSE T[t]]

recover_sessions_none(S) == S

recover_sessions(S) ==
    [t \in DOMAIN S |-> [i \in DOMAIN S[t] |->
                            IF S[t][i] = "running" THEN "stuck" ELSE S[t][i]]]

\* the rows the two UPDATEs of recover_orphaned_tickets match
RecoveryWrites(T, S) ==
    Cardinality({t \in DOMAIN T : T[t].status = "in_progress"})
    + Cardinality({x \in TicketIds \X (1..MaxSessions + 1) :
                     x[2] \in DOMAIN S[x[1]] /\ S[x[1]][x[2]] = "running"})

\* ClaudeDaemon.__init__ and the head of ClaudeDaemon.run: a fresh process
\* (no worker, running = True), then recover_orphaned_tickets
DaemonStart ==
    /\ SchedAt("down")
    /\ starts < MaxStarts
    /\ starts' = starts + 1
    /\ daemon_running' = TRUE
    /\ threads' = [p \in DOMAIN projects |-> <<>>]
    /\ workers' = [p \in DOMAIN projects |-> None]
    /\ tickets' = recover_tickets(tickets)
    /\ sessions' = recover_sessions(sessions)
    /\ daemon_status' = "running"
    /\ sched' = [pc |-> "cleanup", cands |-> <<>>, active_count |-> 0,
                 recovered |-> RecoveryWrites(tickets, sessions)]
    /\ UNCHANGED <<projects, knowledge, usage, messages, user_messages, extractions, history,
                   procs, now>>

\* cleanup_dead_workers: del self.workers[pid] for every worker not alive
cleanup_dead_workers(W) ==
    [p \in DOMAIN W |-> IF W[p] # None /\ ~is_alive(p, W[p]) THEN None ELSE W[p]]

\* ClaudeDaemon.run, loop head with self.running set: cleanup_dead_workers
SchedCleanup ==
    /\ SchedAt("cleanup")
    /\ daemon_running
    /\ workers' = cleanup_dead_workers(workers)
    /\ sched' = [sched EXCEPT !.pc = "autoclose"]
    /\ UNCHANGED <<storeVars, daemon_running, threads, procs, now, starts>>

auto_close_every_review(T, clock) ==
    [t \in DOMAIN T |->
        IF /\ T[t].status = "awaiting_input"
           /\ T[t].review_deadline # None
        THEN [T[t] EXCEPT !.status = "done", !.review_deadline = None,
                          !.close_reason = "auto_closed_7days"]
        ELSE T[t]]

\* auto_close_expired_reviews: one UPDATE
auto_close_expired_reviews(T, clock) ==
    [t \in DOMAIN T |->
        IF /\ T[t].status = "awaiting_input"
           /\ T[t].review_deadline # None
           /\ T[t].review_deadline < clock
        THEN [T[t] EXCEPT !.status = "done", !.review_deadline = None,
                          !.close_reason = "auto_closed_7days"]
        ELSE T[t]]

SchedAutoClose ==
    /\ SchedAt("autoclose")
    /\ tickets' = auto_close_expired_reviews(tickets, now)
    /\ sched' = [sched EXCEPT !.pc = "query"]
    /\ UNCHANGED <<projects, knowledge, daemon_status, usage, sessions, messages, user_messages, extractions, history,
                   daemon_running, workers, threads, procs, now, starts>>

\* MIN(CASE priority WHEN 'critical' THEN 1 WHEN 'high' THEN 2 WHEN 'medium'
\* THEN 3 ELSE 4 END) over the project's runnable tickets
SchedRank(p) ==
    CASE p = "critical" -> 1
      [] p = "high" -> 2
      [] p = "medium" -> 3
      [] OTHER -> 4

MinRank(T, pid) ==
    CHOOSE r \in 1..4 :
        /\ \E t \in RunnableOf(T, pid) : SchedRank(T[t].priority) = r
        /\ \A t \in RunnableOf(T, pid) : SchedRank(T[t].priority) >= r

\* the active projects with a runnable ticket
Candidates(P, T) ==
    {p \in DOMAIN P : P[p] = "active" /\ RunnableOf(T, p) # {}}

IsAnyOrder(T, s) == TRUE

\* the orders in which get_projects_with_open_tickets may return them:
\* ascending MinRank, projects of equal rank in no defined order
IsRankOrder(T, s) ==
    \A i, j \in DOMAIN s : i < j => MinRank(T, s[i]) <= MinRank(T, s[j])

Perms(S) ==
    {s \in [1..Cardinality(S) -> S] : \A a \in S : \E i \in DOMAIN s : s[i] = a}

get_projects_with_open_tickets(P, T) ==
    {s \in Perms(Candidates(P, T)) : IsRankOrder(T, s)}

SchedQuery ==
    /\ SchedAt("query")
    /\ \E s \in get_projects_with_open_tickets(projects, tickets) :
          sched' = [sched EXCEPT !.pc = "count", !.cands = s]
    /\ UNCHANGED <<storeVars, daemon_running, workers, threads, procs, now, starts>>

\* active_count = len([w for w in self.workers.values() if w.is_alive()])
ActiveCount(W) == Cardinality({p \in DOMAIN W : W[p] # None /\ is_alive(p, W[p])})

SchedCount ==
    /\ SchedAt("count")
    /\ sched' = [sched EXCEPT !.pc = "assign", !.active_count = ActiveCount(workers)]
    /\ UNCHANGED <<storeVars, daemon_running, workers, threads, procs, now, starts>>

\* self.max_parallel = int(self.config.get('MAX_PARALLEL_PROJECTS', ...)): the
\* configured cap
max_parallel == 2

\* if active_count >= self.max_parallel: break
AtCapStrict(n) == n > max_parallel

AtCap(n) == n >= max_parallel

NeedsWorkerNoNot(W, pid) == W[pid] = None \/ is_alive(pid, W[pid])

\* if project['id'] not in self.workers or not self.workers[project['id']].is_alive()
NeedsWorker(W, pid) == W[pid] = None \/ ~is_alive(pid, W[pid])

\* ClaudeDaemon.run: one iteration of "for project in projects"
SchedAssign ==
    /\ SchedAt("assign")
    /\ IF sched.cands = <<>> \/ AtCap(sched.active_count)
       THEN /\ sched' = [sched EXCEPT !.pc = "sleep", !.cands = <<>>, !.active_count = 0]
            /\ UNCHANGED <<workers, threads>>
       ELSE LET pid == Head(sched.cands) IN
            IF NeedsWorker(workers, pid)
            THEN /\ Len(threads[pid]) < MaxThreads
                 /\ threads' = [threads EXCEPT ![pid] = Append(@, NewThread(pid))]
                 /\ workers' = [workers EXCEPT ![pid] = Len(threads[pid]) + 1]
                 /\ sched' = [sched EXCEPT !.cands = Tail(@),
                                           !.active_count = @ + 1]
            ELSE /\ sched' = [sched EXCEPT !.cands = Tail(@)]
                 /\ UNCHANGED <<workers, threads>>
    /\ UNCHANGED <<storeVars, daemon_running, procs, now, starts>>

\* time.sleep(POLL_INTERVAL), back to the loop head
SchedSleep ==
    /\ SchedAt("sleep")
    /\ sched' = [sched EXCEPT !.pc = "cleanup"]
    /\ UNCHANGED <<storeVars, daemon_running, workers, threads, procs, now, starts>>

\* SIGTERM / SIGINT handler: setattr(daemon, 'running', False)
Signal ==
    /\ ~SchedAt("down")
    /\ daemon_running
    /\ daemon_running' = FALSE
    /\ UNCHANGED <<storeVars, sched, workers, threads, procs, now, starts>>

\* ClaudeDaemon.run after the loop: worker.stop() for every registered worker
DaemonStopWorkers ==
    /\ SchedAt("cleanup")
    /\ ~daemon_running
    /\ threads' = [p \in DOMAIN threads |-> [k \in DOMAIN threads[p] |->
                     IF workers[p] = k
                     THEN [threads[p][k] EXCEPT !.running = FALSE] ELSE threads[p][k]]]
    /\ sched' = [sched EXCEPT !.pc = "joining"]
    /\ UNCHANGED <<storeVars, daemon_running, workers, procs, now, starts>>

\* the process is gone: its threads with it, agent subprocesses live on
ProcessGone ==
    /\ sched' = [pc |-> "down", cands |-> <<>>, active_count |-> 0, recovered |-> 0]
    /\ threads' = [p \in DOMAIN projects |-> <<>>]
    /\ workers' = [p \in DOMAIN projects |-> None]
    /\ daemon_running' = FALSE

\* ClaudeDaemon.run: every join(timeout=5) has returned (the worker ended or
\* the timeout passed)
DaemonJoin ==
    /\ SchedAt("joining")
    /\ sched' = [sched EXCEPT !.pc = "status"]
    /\ UNCHANGED <<storeVars, daemon_running, workers, threads, procs, now, starts>>

\* ClaudeDaemon.run: daemon_status is written, the process exits
DaemonExit ==
    /\ SchedAt("status")
    /\ daemon_status' = "stopped"
    /\ ProcessGone
    /\ UNCHANGED <<projects, knowledge, usage, tickets, sessions, messages, user_messages,
                   extractions, history, procs, now, starts>>

\* an abrupt end of the daemon process (kill -9, power loss)
Crash ==
    /\ ~SchedAt("down")
    /\ ProcessGone
    /\ UNCHANGED <<storeVars, procs, now, starts>>

(***************************************************************************)
(* Exceptions at the loop boundaries                                       *)
(***************************************************************************)

WorkerRaiseEndsThread(w) ==
    /\ Th(w).pc \in {"start", "outcome", "end"}
    /\ threads' = [threads EXCEPT ![w[1]][w[2]] = DeadThread(@)]
    /\ UNCHANGED <<storeVars, daemon_running, sched, workers, procs, now, starts>>

\* ProjectWorker.run: a statement of process_ticket raises; "except Exception"
\* of the worker loop logs, sleeps and goes to the loop head. What
\* process_ticket had not done yet stays undone.
WorkerRaise(w) ==
    /\ Th(w).pc \in {"start", "outcome", "end"}
    /\ threads' = [threads EXCEPT ![w[1]][w[2]].pc = "loop"]
    /\ UNCHANGED <<storeVars, daemon_running, sched, workers, procs, now, starts>>

\* ClaudeDaemon.run: a statement of the pass raises; "except Exception" of the
\* scheduler loop logs, sleeps and goes to the loop head
SchedRaise ==
    /\ sched.pc \in {"cleanup", "autoclose", "query", "count", "assign"}
    /\ daemon_running
    /\ sched' = [sched EXCEPT !.pc = "sleep", !.cands = <<>>, !.active_count = 0]
    /\ UNCHANGED <<storeVars, daemon_running, workers, threads, procs, now, starts>>

(***************************************************************************)
(* Store write failures (the except branches of the store operations)      *)
(***************************************************************************)

\* WorkerLoop with create_session raising: the error is logged, the session
\* id is None and process_ticket goes on
WorkerLoopSessionFail(w) ==
    /\ At(w, "loop")
    /\ Th(w).running /\ daemon_running
    /\ \E t \in get_next_ticket(tickets, Th(w).project_id) :
          threads' = [threads EXCEPT ![w[1]][w[2]] =
              [@ EXCEPT !.pc = "start", !.ticket = t, !.session = None,
                        !.last_activity = now, !.session_tokens = 0]]
    /\ UNCHANGED <<storeVars, daemon_running, sched, workers, procs, now, starts>>

\* WorkerEndSession with the UPDATE of end_session raising: save_usage_stats
\* has committed before it, the error is logged, the row keeps its status and
\* its tokens_used, the pointers are cleared all the same
WorkerEndSessionFail(w) ==
    /\ At(w, "end")
    /\ usage' = save_usage_stats(usage, Th(w).project_id, Th(w).ticket,
                                 Th(w).session_tokens)
    /\ threads' = [threads EXCEPT ![w[1]][w[2]] =
          [@ EXCEPT !.pc = "loop", !.ticket = None, !.session = None,
                    !.proc = None, !.result = "none", !.end_status = "none",
                    !.history = <<>>]]
    /\ UNCHANGED <<projects, knowledge, daemon_status, tickets, sessions, messages,
                   user_messages, extractions, history,
                   daemon_running, sched, workers, procs, now, starts>>

(***************************************************************************)
(* Environment: the user (UI/API) and the clock                            *)
(***************************************************************************)

\* the UI inserts an unprocessed inbox row
UserSend(t, c) ==
    /\ Len(user_messages[t]) < MaxUserMsgs
    /\ user_messages' = [user_messages EXCEPT ![t] =
                            Append(@, [content |-> c, processed |-> FALSE])]
    /\ UNCHANGED <<projects, knowledge, daemon_status, usage, tickets, sessions, messages, extractions, history,
                   daemon_running, sched, workers, threads, procs, now, starts>>

Ticket(pid, prio, created, status) ==
    [project_id |-> pid, priority |-> prio, created_at |-> created,
     status |-> status, review_deadline |-> None, close_reason |-> "NULL"]

LatestCreated(T) ==
    CHOOSE c \in {T[t].created_at : t \in DOMAIN T} : \A t \in DOMAIN T : T[t].created_at <= c

\* the UI creates a ticket: the next id, created after every existing ticket
TicketCreate(pid, prio) ==
    /\ Cardinality(DOMAIN tickets) < MaxTickets
    /\ tickets' = tickets @@
          (Cardinality(DOMAIN tickets) + 1 :>
              Ticket(pid, prio, LatestCreated(tickets) + 1, "open"))
    /\ UNCHANGED <<projects, knowledge, daemon_status, usage, sessions, messages, user_messages, extractions, history,
                   daemon_running, sched, workers, threads, procs, now, starts>>

TickSteps == {STUCK_TIMEOUT_MINUTES + 1, REVIEW_DAYS * MINUTES_PER_DAY + 1}

Ticks(n) == n \div (STUCK_TIMEOUT_MINUTES + 1)

\* time passes
Tick(d) ==
    /\ Ticks(now) < MaxTicks
    /\ now' = now + d
    /\ UNCHANGED <<storeVars, daemon_running, sched, workers, threads, procs, starts>>

(***************************************************************************)
(* SmartContextManager: the context compactor (scripts/smart_context.py)   *)
(* A message's content is modelled by its length in characters; a message  *)
(* id is its position among the messages of its ticket.                    *)
(***************************************************************************)

RECENT_TOKENS_BUDGET == 50000
EXTRACTION_THRESHOLD == 50000
MAX_SINGLE_MESSAGE == 10000

\* len("\n\n[... truncated ") and len(" tokens ...]\n\n")
TRUNCATION_NOTICE_HEAD == 17
TRUNCATION_NOTICE_TAIL == 14
KNOWLEDGE_BATCH == 10
KNOWLEDGE_KEEP == 20
TICKETS_KEEP == 50

\* count_tokens: 0 for no text, else len(text) // 4
count_tokens(chars) == chars \div 4

\* len(str(n)) for n >= 0
RECURSIVE DecimalDigits(_)
DecimalDigits(n) == IF n < 10 THEN 1 ELSE 1 + DecimalDigits(n \div 10)

truncate_message_none(chars, max_tokens) == chars

\* truncate_message: the length of what it returns (the first and the last
\* int(char_limit * 0.4) characters around the truncation notice)
truncate_message(chars, max_tokens) ==
    IF chars = 0 \/ count_tokens(chars) <= max_tokens THEN chars
    ELSE LET char_limit == max_tokens * 4
             part == Min(chars, (char_limit * 4) \div 10)
         IN part + TRUNCATION_NOTICE_HEAD
                 + DecimalDigits(count_tokens(chars) - max_tokens)
                 + TRUNCATION_NOTICE_TAIL + part

NoHistory ==
    [called |-> FALSE, ticket |-> None, seen |-> 0, rows |-> <<>>,
     system_context |-> <<>>, has_extraction |-> FALSE]

\* SELECT ... WHERE ticket_id = %s AND is_summarized = FALSE ORDER BY created_at
Unsummarized(M, t) ==
    SelectSeq([i \in 1..Len(M[t]) |-> i], LAMBDA i : ~M[t][i].is_summarized)

\* msg['token_count'] after "calculate token counts if needed"
TokenCountOf(row) ==
    IF row.token_count = 0 THEN count_tokens(row.chars) ELSE row.token_count

TotalTokens(M, t, ids) == SumSeq([k \in DOMAIN ids |-> TokenCountOf(M[t][ids[k]])])

RECURSIVE RecentCountEager(_, _, _, _, _)
RecentCountEager(M, t, ids, k, recent_tokens) ==
    IF k = 0 THEN 0
    ELSE LET msg_tokens == Min(TokenCountOf(M[t][ids[k]]), MAX_SINGLE_MESSAGE)
         IN IF recent_tokens + msg_tokens >= RECENT_TOKENS_BUDGET THEN 0
            ELSE 1 + RecentCountEager(M, t, ids, k - 1, recent_tokens + msg_tokens)

\* the loop over reversed(unsummarized_messages) from position k downwards:
\* how many messages it puts into recent before it breaks
RECURSIVE RecentCount(_, _, _, _, _)
RecentCount(M, t, ids, k, recent_tokens) ==
    IF k = 0 THEN 0
    ELSE LET msg_tokens == Min(TokenCountOf(M[t][ids[k]]), MAX_SINGLE_MESSAGE)
         IN IF recent_tokens + msg_tokens > RECENT_TOKENS_BUDGET THEN 0
            ELSE 1 + RecentCount(M, t, ids, k - 1, recent_tokens + msg_tokens)

\* a returned message: truncated when the recent-window loop found it too large
ReturnedRow(M, t, i, windowed) ==
    [id |-> i,
     token_count |-> TokenCountOf(M[t][i]),
     chars |-> IF windowed /\ TokenCountOf(M[t][i]) > MAX_SINGLE_MESSAGE
               THEN truncate_message(M[t][i].chars, MAX_SINGLE_MESSAGE)
               ELSE M[t][i].chars]

\* get_smart_history: recent (what it returns) and older (what it hands to
\* create_extraction; empty when no extraction is asked for)
get_smart_history(M, t) ==
    LET ids == Unsummarized(M, t)
        n == RecentCount(M, t, ids, Len(ids), 0)
        recent == SubSeq(ids, Len(ids) - n + 1, Len(ids))
    IN IF ids = <<>> THEN [recent |-> <<>>, older |-> <<>>]
       ELSE IF TotalTokens(M, t, ids) < EXTRACTION_THRESHOLD
       THEN [recent |-> [k \in DOMAIN ids |-> ReturnedRow(M, t, ids[k], FALSE)],
             older |-> <<>>]
       ELSE [recent |-> [k \in DOMAIN recent |-> ReturnedRow(M, t, recent[k], TRUE)],
             older |-> IF n < Len(ids)
                       THEN (IF n > 0 THEN SubSeq(ids, 1, Len(ids) - n) ELSE ids)
                       ELSE <<>>]

\* create_extraction, the commit: UPDATE conversation_messages SET
\* is_summarized = TRUE WHERE id IN (older)
create_extraction(M, t, older) ==
    [M EXCEPT ![t] = [i \in DOMAIN @ |->
        IF \E k \in DOMAIN older : older[k] = i
        THEN [@[i] EXCEPT !.is_summarized = TRUE] ELSE @[i]]]

\* project_knowledge: no row for the project
NoKnowledge ==
    [exists |-> FALSE, known_gotchas |-> <<>>, error_solutions |-> <<>>,
     architecture_decisions |-> <<>>, learned_from_tickets |-> <<>>]

KnowledgeTypes == {"known_gotchas", "error_solutions", "architecture_decisions"}

\* xs[:n] and xs[-n:]
FirstN(xs, n) == SubSeq(xs, 1, Min(n, Len(xs)))

LastN(xs, n) == SubSeq(xs, Len(xs) - Min(n, Len(xs)) + 1, Len(xs))

Has(xs, x) == \E k \in DOMAIN xs : xs[k] = x

RECURSIVE MergeList(_, _)
\* for x in batch: if x and x not in existing: existing.append(x)
MergeList(existing, batch) ==
    IF batch = <<>> THEN existing
    ELSE IF Head(batch) # 0 /\ ~Has(existing, Head(batch))
    THEN MergeList(Append(existing, Head(batch)), Tail(batch))
    ELSE MergeList(existing, Tail(batch))

\* _update_project_knowledge_from_extraction: the row of the project after it
\* (created from the batches as they are, or merged and cut to the last
\* entries)
_update_project_knowledge_from_extraction(row, ticket_id, decisions, problems, important_notes) ==
    IF ~row.exists
    THEN [exists |-> TRUE,
          known_gotchas |-> FirstN(important_notes, KNOWLEDGE_BATCH),
          error_solutions |-> FirstN(problems, KNOWLEDGE_BATCH),
          architecture_decisions |-> FirstN(decisions, KNOWLEDGE_BATCH),
          learned_from_tickets |-> <<ticket_id>>]
    ELSE [exists |-> TRUE,
          known_gotchas |->
              LastN(MergeList(row.known_gotchas, FirstN(important_notes, KNOWLEDGE_BATCH)),
                    KNOWLEDGE_KEEP),
          error_solutions |->
              LastN(MergeList(row.error_solutions, FirstN(problems, KNOWLEDGE_BATCH)),
                    KNOWLEDGE_KEEP),
          architecture_decisions |->
              LastN(MergeList(row.architecture_decisions, FirstN(decisions, KNOWLEDGE_BATCH)),
                    KNOWLEDGE_KEEP),
          learned_from_tickets |->
              LastN(IF Has(row.learned_from_tickets, ticket_id)
                    THEN row.learned_from_tickets
                    ELSE Append(row.learned_from_tickets, ticket_id), TICKETS_KEEP)]

\* add_project_knowledge: the row of the project after it
add_project_knowledge(row, knowledge_type, value) ==
    IF row.exists
    THEN IF Has(row[knowledge_type], value) THEN row
         ELSE [row EXCEPT ![knowledge_type] = Append(@, value)]
    ELSE [NoKnowledge EXCEPT !.exists = TRUE, ![knowledge_type] = <<value>>]

\* a call of _update_project_knowledge_from_extraction
UpdateProjectKnowledge(t, decisions, problems, important_notes) ==
    /\ t \in DOMAIN tickets
    /\ knowledge' = [knowledge EXCEPT ![tickets[t].project_id] =
          _update_project_knowledge_from_extraction(@, t, decisions, problems,
                                                    important_notes)]
    /\ UNCHANGED <<projects, daemon_status, usage, tickets, sessions, messages, user_messages, extractions,
                   history, daemon_running, sched, workers, threads, procs, now, starts>>

\* a call of add_project_knowledge
AddProjectKnowledge(p, knowledge_type, value) ==
    /\ p \in DOMAIN projects
    /\ knowledge' = [knowledge EXCEPT ![p] = add_project_knowledge(@, knowledge_type, value)]
    /\ UNCHANGED <<projects, daemon_status, usage, tickets, sessions, messages, user_messages, extractions,
                   history, daemon_running, sched, workers, threads, procs, now, starts>>

\* what the summarising subprocess prints: nothing, text that is not JSON, a
\* JSON array, or a JSON object with the keys it has and those that are null
Stdout(json, keys, nulls) == [json |-> json, keys |-> keys, nulls |-> nulls]

HaikuKeys == {"decisions", "problems_solved", "current_status", "important_notes"}

\* subprocess.run of the summarising model: it times out, or exits with a
\* return code and an output
HaikuRun(timeout, returncode, stdout) ==
    [timeout |-> timeout, returncode |-> returncode, stdout |-> stdout]

HaikuOk == HaikuRun(FALSE, 0, Stdout("object", HaikuKeys, {}))

HaikuRuns ==
    { HaikuOk,
      HaikuRun(TRUE, 0, Stdout("empty", {}, {})),
      HaikuRun(FALSE, 1, Stdout("empty", {}, {})),
      HaikuRun(FALSE, 0, Stdout("empty", {}, {})),
      HaikuRun(FALSE, 0, Stdout("invalid", {}, {})),
      HaikuRun(FALSE, 0, Stdout("array", {}, {})),
      HaikuRun(FALSE, 0, Stdout("object", {}, {})),
      HaikuRun(FALSE, 0, Stdout("object", {"decisions", "problems_solved"}, {})),
      HaikuRun(FALSE, 0, Stdout("object", HaikuKeys, {"decisions"})),
      HaikuRun(FALSE, 0, Stdout("object", HaikuKeys, {"problems_solved"})),
      HaikuRun(FALSE, 0, Stdout("object", HaikuKeys, {"current_status"})) }

NoExtraction == [found |-> FALSE, keys |-> {}, nulls |-> {}]

\* _extract_with_haiku: the parsed object, or None after a timeout, a
\* non-zero return code, no output, invalid JSON, or an exception in the
\* "extraction successful" log line (extraction.get on a list, len(None))
_extract_with_haiku(run) ==
    IF run.timeout THEN NoExtraction
    ELSE IF run.returncode = 0 /\ run.stdout.json # "empty"
    THEN IF run.stdout.json = "invalid" THEN NoExtraction
         ELSE IF run.stdout.json = "array" THEN NoExtraction
         ELSE IF "decisions" \in run.stdout.nulls THEN NoExtraction
         ELSE [found |-> TRUE, keys |-> run.stdout.keys, nulls |-> run.stdout.nulls]
    ELSE NoExtraction

\* "if extraction_result:" an object with at least one key
Truthy(result) == result.found /\ result.keys # {}

\* extraction_result.get(key, default) for a list and for current_status; an
\* entry of a list (a decision, a problem, a note) is a number that names its
\* value, 0 the empty string
GetList(result, key, value) == IF key \in result.keys THEN value ELSE <<>>

GetStatus(result) == IF "current_status" \in result.keys THEN "in progress" ELSE ""

\* create_extraction raises while it builds extraction_data: problems[:10]
\* or important_notes[:15] on None, or json.dumps(...) + current_status on None
BuildRaises(result) ==
    /\ Truthy(result)
    /\ result.nulls \cap {"problems_solved", "current_status", "important_notes"} # {}

Processed(n) == "Processed " \o ToString(n) \o " messages"

\* create_extraction: the row it inserts into conversation_extractions
ExtractionRow(t, older, result) ==
    LET decisions == IF Truthy(result)
                     THEN GetList(result, "decisions", <<1>>) ELSE <<>>
        problems == IF Truthy(result)
                    THEN GetList(result, "problems_solved", <<1>>)
                    ELSE <<>>
        current_status == IF Truthy(result) THEN GetStatus(result)
                          ELSE Processed(Len(older))
    IN [ticket_id |-> t, covers_msg_from_id |-> older[1],
        covers_msg_to_id |-> older[Len(older)], messages_summarized |-> Len(older),
        decisions |-> FirstN(decisions, KNOWLEDGE_BATCH),
        problems_solved |-> FirstN(problems, KNOWLEDGE_BATCH),
        important_notes |-> IF Truthy(result)
                            THEN GetList(result, "important_notes", <<1>>) ELSE <<>>,
        current_status |-> IF current_status # "" THEN current_status
                           ELSE Processed(Len(older))]

HistoryOf(M, t, recent) ==
    [called |-> TRUE, ticket |-> t, seen |-> Len(M[t]), rows |-> recent,
     system_context |-> <<>>, has_extraction |-> FALSE]

\* a call of get_smart_history with the run of the summarising model that
\* create_extraction, if called, makes; the store does not fail
GetSmartHistory(t, run) ==
    /\ t \in DOMAIN tickets
    /\ LET r == get_smart_history(messages, t)
           result == _extract_with_haiku(run)
       IN
       /\ history' = HistoryOf(messages, t, r.recent)
       /\ IF r.older = <<>> \/ BuildRaises(result)
          THEN UNCHANGED <<messages, extractions, knowledge>>
          ELSE LET row == ExtractionRow(t, r.older, result) IN
               /\ messages' = create_extraction(messages, t, r.older)
               /\ extractions' = Append(extractions, row)
               /\ knowledge' = [knowledge EXCEPT ![tickets[t].project_id] =
                     _update_project_knowledge_from_extraction(@, t,
                         row.decisions, row.problems_solved, row.important_notes)]
    /\ UNCHANGED <<projects, daemon_status, usage, tickets, sessions, user_messages,
                   daemon_running, sched, workers, threads, procs, now, starts>>

\* create_extraction: the points at which it can raise (building the row,
\* the INSERT, the UPDATE, the commit)
ExtractionSteps == {"build", "insert", "update", "commit"}

\* the statements create_extraction has executed on its connection when it
\* raises at the step
Executed(step) ==
    CASE step = "build"  -> {}
      [] step = "insert" -> {}
      [] step = "update" -> {"insert"}
      [] step = "commit" -> {"insert", "update"}

failed_extraction_autocommit(E, M, t, older, step) ==
    [extractions |-> IF "insert" \in Executed(step)
                     THEN Append(E, ExtractionRow(t, older, _extract_with_haiku(HaikuOk)))
                     ELSE E,
     messages |-> IF "update" \in Executed(step)
                  THEN create_extraction(M, t, older) ELSE M]

\* the store after create_extraction raised at the step: the connection of
\* the pool does not autocommit and the handler returns without a commit,
\* so what was executed on it is discarded
failed_extraction(E, M, t, older, step) ==
    [extractions |-> E, messages |-> M]

\* a call of get_smart_history in which create_extraction raises at one of
\* its steps: it logs and returns None
GetSmartHistoryExtractionFails(t) ==
    /\ t \in DOMAIN tickets
    /\ LET r == get_smart_history(messages, t) IN
       /\ r.older # <<>>
       /\ history' = HistoryOf(messages, t, r.recent)
       /\ \E step \in ExtractionSteps :
            LET store == failed_extraction(extractions, messages, t, r.older, step)
            IN /\ extractions' = store.extractions
               /\ messages' = store.messages
    /\ UNCHANGED <<projects, knowledge, daemon_status, usage, tickets, sessions, user_messages,
                   daemon_running, sched, workers, threads, procs, now, starts>>

\* get_extraction: the id of the ticket's latest row of
\* conversation_extractions (ORDER BY created_at DESC LIMIT 1), None without one
get_extraction(E, t) ==
    LET rows == {e \in DOMAIN E : E[e].ticket_id = t}
    IN IF rows = {} THEN None
       ELSE CHOOSE e \in rows : \A f \in rows : f <= e

\* build_extraction_context: the sections of the block, in the order they are
\* appended, for the fields of the row that are not empty
ExtractionSections(row) ==
    (IF row.important_notes # <<>> THEN <<"important_notes">> ELSE <<>>)
    \o (IF row.decisions # <<>> THEN <<"decisions">> ELSE <<>>)
    \o (IF row.problems_solved # <<>> THEN <<"problems_solved">> ELSE <<>>)
    \o (IF row.current_status # "" THEN <<"current_status">> ELSE <<>>)

\* build_extraction_context: the block of the ticket's latest extraction, no
\* block without one
build_extraction_context(E, t) ==
    IF get_extraction(E, t) = None THEN <<>>
    ELSE <<[block |-> "extraction", id |-> get_extraction(E, t),
            sections |-> ExtractionSections(E[get_extraction(E, t)])]>>

\* build_project_knowledge_context: the block of the project's knowledge,
\* no block when nothing of the row is rendered
build_project_knowledge_context(K, p) ==
    IF K[p].exists /\ \E knowledge_type \in KnowledgeTypes : K[p][knowledge_type] # <<>>
    THEN <<[block |-> "project_knowledge", id |-> None, sections |-> <<>>]>>
    ELSE <<>>

\* build_full_context: the context parts are built, then get_smart_history is
\* called (with the run of the summarising model that create_extraction, if
\* called, makes), then get_extraction is asked once more for has_extraction
BuildFullContext(t, run) ==
    /\ t \in DOMAIN tickets
    /\ LET context_parts ==
               build_project_knowledge_context(knowledge, tickets[t].project_id)
               \o build_extraction_context(extractions, t)
           r == get_smart_history(messages, t)
           result == _extract_with_haiku(run)
       IN
       /\ IF r.older = <<>> \/ BuildRaises(result)
          THEN UNCHANGED <<messages, extractions, knowledge>>
          ELSE LET row == ExtractionRow(t, r.older, result) IN
               /\ messages' = create_extraction(messages, t, r.older)
               /\ extractions' = Append(extractions, row)
               /\ knowledge' = [knowledge EXCEPT ![tickets[t].project_id] =
                     _update_project_knowledge_from_extraction(@, t,
                         row.decisions, row.problems_solved, row.important_notes)]
       /\ history' = [HistoryOf(messages, t, r.recent) EXCEPT
                         !.system_context = context_parts,
                         !.has_extraction = get_extraction(extractions', t) # None]
    /\ UNCHANGED <<projects, daemon_status, usage, tickets, sessions, user_messages,
                   daemon_running, sched, workers, threads, procs, now, starts>>

\* the lengths of the contents handed to save_message
ContentChars == {0, 100, 40000, 60000}

\* a worker saves a message of its current ticket
SaveMessage(t, chars) ==
    /\ t \in DOMAIN tickets
    /\ Len(messages[t]) < MaxHist
    /\ messages' = save_message(messages, t, None, "assistant", chars)
    /\ UNCHANGED <<projects, knowledge, daemon_status, usage, tickets, sessions, user_messages, extractions, history,
                   daemon_running, sched, workers, threads, procs, now, starts>>


\* the token counts handed to update_message_token_count
TokenCounts == {2500}

\* update_message_token_count: UPDATE conversation_messages SET
\* token_count = %s WHERE id = %s
update_message_token_count(M, t, message_id, token_count) ==
    [M EXCEPT ![t][message_id].token_count = token_count]

UpdateMessageTokenCount(t, message_id, token_count) ==
    /\ t \in DOMAIN tickets
    /\ message_id \in DOMAIN messages[t]
    /\ messages[t][message_id].token_count # token_count
    /\ messages' = update_message_token_count(messages, t, message_id, token_count)
    /\ UNCHANGED <<projects, knowledge, daemon_status, usage, tickets, sessions, user_messages, extractions, history,
                   daemon_running, sched, workers, threads, procs, now, starts>>


(***************************************************************************)
(* Specifications                                                          *)
(***************************************************************************)

DaemonDown ==
    /\ daemon_running = FALSE
    /\ sched = [pc |-> "down", cands |-> <<>>, active_count |-> 0, recovered |-> 0]
    /\ threads = [p \in DOMAIN projects |-> <<>>]
    /\ workers = [p \in DOMAIN projects |-> None]
    /\ procs = [p \in DOMAIN projects |-> <<>>]
    /\ now = 0
    /\ starts = 0

EmptyStore ==
    /\ knowledge = [p \in DOMAIN projects |-> NoKnowledge]
    /\ sessions = [t \in TicketIds |-> <<>>]
    /\ messages = [t \in TicketIds |-> <<>>]
    /\ user_messages = [t \in TicketIds |-> <<>>]
    /\ extractions = <<>>
    /\ history = NoHistory

\* the worker with an agent that prints nothing
WorkerCore ==
    \/ \E w \in ThreadIds : WorkerLoop(w)
    \/ \E w \in ThreadIds : WorkerRecheck(w)
    \/ \E w \in ThreadIds : WorkerStart(w)
    \/ \E w \in ThreadIds : WorkerSpawn(w)
    \/ \E w \in ThreadIds : WorkerPoll(w)
    \/ \E w \in ThreadIds : WorkerReadEOF(w)
    \/ \E w \in ThreadIds : WorkerOutcome(w)
    \/ \E w \in ThreadIds : WorkerEndSession(w)

\* the agent prints lines of the given kinds
WorkerNext(kinds) ==
    \/ WorkerCore
    \/ \E w \in ThreadIds, k \in kinds : WorkerReadLine(w, k)

\* the agent exits with one of the given codes
AgentNext(codes) ==
    \E pid \in DOMAIN procs : \E p \in DOMAIN procs[pid], c \in codes : AgentExit(pid, p, c)

SchedNext ==
    \/ DaemonStart
    \/ SchedCleanup
    \/ SchedAutoClose
    \/ SchedQuery
    \/ SchedCount
    \/ SchedAssign
    \/ SchedSleep

StopNext ==
    \/ Signal
    \/ DaemonStopWorkers
    \/ DaemonJoin
    \/ DaemonExit

\* Spec: one project, one ticket, the user at the inbox
Init ==
    /\ daemon_status = "stopped"
    /\ projects = (1 :> "active")
    /\ usage = NoUsage
    /\ tickets = (1 :> Ticket(1, "low", 1, "open"))
    /\ EmptyStore
    /\ DaemonDown

Next ==
    \/ WorkerNext({"marker", "garbage", "nonobject"})
    \/ \E w \in ThreadIds : WorkerSpawnFail(w)
    \/ AgentNext({0, 1})
    \/ SchedNext
    \/ \E t \in DOMAIN tickets, c \in UserContents : UserSend(t, c)

Spec == Init /\ [][Next]_vars

\* SpecFault: Spec with store writes of create_session / end_session failing
NextFault ==
    \/ WorkerNext({"garbage"})
    \/ AgentNext({0, 1})
    \/ SchedNext
    \/ \E t \in DOMAIN tickets, c \in UserContents : UserSend(t, c)
    \/ \E w \in ThreadIds : WorkerLoopSessionFail(w)
    \/ \E w \in ThreadIds : WorkerEndSessionFail(w)

SpecFault == Init /\ [][NextFault]_vars

\* SpecTime: one ticket, feedback at the inbox, the clock
NextTime ==
    \/ WorkerNext({"marker", "garbage"})
    \/ AgentNext({0, 1})
    \/ SchedNext
    \/ \E t \in DOMAIN tickets : UserSend(t, "feedback")
    \/ \E d \in TickSteps : Tick(d)

SpecTime == Init /\ [][NextTime]_vars

\* SpecDone: the user sends /done and feedback, the clock advances
NextDone ==
    \/ WorkerNext({"marker", "garbage"})
    \/ AgentNext({0, 1})
    \/ SchedNext
    \/ \E t \in DOMAIN tickets, c \in {"/done", "feedback"} : UserSend(t, c)
    \/ Tick(STUCK_TIMEOUT_MINUTES + 1)

SpecDone == Init /\ [][NextDone]_vars

\* SpecStop: the user sends /stop, /skip and feedback
NextStop ==
    \/ WorkerNext({"marker", "garbage"})
    \/ AgentNext({0, 1})
    \/ SchedNext
    \/ \E t \in DOMAIN tickets, c \in {"/stop", "/skip", "feedback"} : UserSend(t, c)

SpecStop == Init /\ [][NextStop]_vars

\* SpecStuck: SpecTime with the worker thread scheduled whenever it can take a
\* step; the agent and the user are free to do nothing
SpecStuck == Init /\ [][NextTime]_vars /\ WF_vars(WorkerCore)

\* SpecSched: three active projects with one ticket each and a project that
\* is not active, one more ticket may come;
\* the agent prints nothing and exits
InitSched ==
    /\ daemon_status = "stopped"
    /\ projects = [p \in 1..4 |-> IF p = 4 THEN "archived" ELSE "active"]
    /\ usage = NoUsage
    /\ tickets = (1 :> Ticket(1, "low", 1, "open") @@ 2 :> Ticket(2, "high", 2, "new")
                  @@ 3 :> Ticket(3, "high", 3, "pending"))
    /\ EmptyStore
    /\ DaemonDown

NextSched ==
    \/ WorkerCore
    \/ AgentNext({0})
    \/ SchedNext
    \/ \E pid \in DOMAIN projects : TicketCreate(pid, "critical")

SpecSched == InitSched /\ [][NextSched]_vars

\* SpecLife: two tickets of one project, the first left in_progress with a
\* running session by an earlier daemon process; signals, shutdown, crashes
InitLife ==
    /\ daemon_status = "running"
    /\ projects = (1 :> "active")
    /\ usage = NoUsage
    /\ tickets = (1 :> Ticket(1, "high", 1, "in_progress") @@ 2 :> Ticket(1, "low", 2, "open"))
    /\ knowledge = [p \in DOMAIN projects |-> NoKnowledge]
    /\ sessions = [t \in TicketIds |-> IF t = 1 THEN <<"running">> ELSE <<>>]
    /\ messages = [t \in TicketIds |-> <<>>]
    /\ user_messages = [t \in TicketIds |-> <<>>]
    /\ extractions = <<>>
    /\ history = NoHistory
    /\ DaemonDown

NextLife ==
    \/ WorkerNext({"marker", "garbage"})
    \/ AgentNext({0, 1})
    \/ SchedNext
    \/ StopNext
    \/ Crash

SpecLife == InitLife /\ [][NextLife]_vars

\* SpecReview: two tickets of one project, the agent completes them, the
\* review period passes
InitReview ==
    /\ daemon_status = "stopped"
    /\ projects = (1 :> "active")
    /\ usage = NoUsage
    /\ tickets = (1 :> Ticket(1, "high", 1, "open") @@ 2 :> Ticket(1, "low", 2, "open"))
    /\ EmptyStore
    /\ DaemonDown

NextReview ==
    \/ WorkerNext({"marker"})
    \/ AgentNext({0})
    \/ SchedNext
    \/ Tick(REVIEW_DAYS * MINUTES_PER_DAY + 1)

SpecReview == InitReview /\ [][NextReview]_vars


\* SpecQueue: a worker of project 1 at the head of its loop, over every table
\* of three tickets (two of its project, one of either project)
QueueStatus == {"open", "new", "pending", "awaiting_input"}
QueueCreated == 1..2

QueueTickets ==
    {T \in [1..3 -> [project_id : 1..2, priority : Priorities, created_at : QueueCreated,
                     status : QueueStatus, review_deadline : {None},
                     close_reason : {"NULL"}]] :
        T[1].project_id = 1 /\ T[2].project_id = 1}

InitQueue ==
    /\ daemon_status = "running"
    /\ projects = [p \in 1..2 |-> "active"]
    /\ usage = NoUsage
    /\ tickets \in QueueTickets
    /\ EmptyStore
    /\ daemon_running = TRUE
    /\ sched = [pc |-> "sleep", cands |-> <<>>, active_count |-> 0, recovered |-> 0]
    /\ threads = [p \in 1..2 |-> IF p = 1 THEN <<NewThread(1)>> ELSE <<>>]
    /\ workers = [p \in 1..2 |-> IF p = 1 THEN 1 ELSE None]
    /\ procs = [p \in 1..2 |-> <<>>]
    /\ now = 0
    /\ starts = 1

NextQueue ==
    \/ \E w \in ThreadIds : WorkerLoop(w)
    \/ \E w \in ThreadIds : WorkerRecheck(w)
    \/ \E w \in ThreadIds : WorkerStart(w)

SpecQueue == InitQueue /\ [][NextQueue]_vars


\* SpecHist: the messages of one ticket grow; the compactor is called, with
\* create_extraction committing or failing
InitHist ==
    /\ daemon_status = "stopped"
    /\ projects = (1 :> "active")
    /\ usage = NoUsage
    /\ tickets = (1 :> Ticket(1, "low", 1, "in_progress"))
    /\ EmptyStore
    /\ DaemonDown

NextHist ==
    \/ \E c \in ContentChars : SaveMessage(1, c)
    \/ GetSmartHistory(1, HaikuOk)
    \/ GetSmartHistoryExtractionFails(1)

SpecHist == InitHist /\ [][NextHist]_vars

\* SpecCompact: SpecHist with every create_extraction committing
NextCompact ==
    \/ \E c \in ContentChars : SaveMessage(1, c)
    \/ GetSmartHistory(1, HaikuOk)

SpecCompact == InitHist /\ [][NextCompact]_vars


\* SpecContext: the messages of one ticket grow; build_full_context is called
NextContext ==
    \/ \E c \in {100, 40000} : SaveMessage(1, c)
    \/ BuildFullContext(1, HaikuOk)

SpecContext == InitHist /\ [][NextContext]_vars


\* SpecPrompt: one open ticket with the messages of an earlier attempt that
\* failed; the worker takes it up again
PromptBacklog == 6

InitPrompt ==
    /\ daemon_status = "stopped"
    /\ projects = (1 :> "active")
    /\ usage = NoUsage
    /\ tickets = (1 :> Ticket(1, "low", 1, "open"))
    /\ knowledge = [p \in DOMAIN projects |-> NoKnowledge]
    /\ sessions = [t \in TicketIds |-> IF t = 1 THEN <<"failed">> ELSE <<>>]
    /\ messages = [t \in TicketIds |->
                      IF t = 1
                      THEN [i \in 1..PromptBacklog |->
                              [role |-> IF i = 1 THEN "user" ELSE "assistant",
                               chars |-> IF i = 1 THEN 100 ELSE 40000,
                               session_id |-> 1, token_count |-> 0,
                               is_summarized |-> FALSE]]
                      ELSE <<>>]
    /\ user_messages = [t \in TicketIds |-> <<>>]
    /\ extractions = <<>>
    /\ history = NoHistory
    /\ DaemonDown

NextPrompt ==
    \/ WorkerNext({"marker", "text"})
    \/ AgentNext({0, 1})
    \/ SchedNext
    \/ \E t \in DOMAIN tickets : UserSend(t, "feedback")

SpecPrompt == InitPrompt /\ [][NextPrompt]_vars


\* SpecRaise: two projects, the first with two tickets; statements of
\* process_ticket and of the scheduler pass raise
InitRaise ==
    /\ daemon_status = "stopped"
    /\ projects = [p \in 1..2 |-> "active"]
    /\ usage = NoUsage
    /\ tickets = (1 :> Ticket(1, "high", 1, "open") @@ 2 :> Ticket(1, "low", 2, "open")
                  @@ 3 :> Ticket(2, "low", 3, "open"))
    /\ EmptyStore
    /\ DaemonDown

NextRaise ==
    \/ WorkerCore
    \/ AgentNext({0})
    \/ SchedNext
    \/ \E w \in ThreadIds : WorkerRaise(w)
    \/ SchedRaise

SpecRaise == InitRaise /\ [][NextRaise]_vars


\* SpecUsage: two tickets of one project, the agent prints assistant events
\* with usage; the UPDATE of end_session may raise
NextUsage ==
    \/ WorkerNext({"marker", "text"})
    \/ AgentNext({0, 1})
    \/ SchedNext
    \/ \E w \in ThreadIds : WorkerEndSessionFail(w)

SpecUsage == InitReview /\ [][NextUsage]_vars


\* SpecStore: every operation that writes conversation_messages: the worker's
\* save_message, the compactor's create_extraction and
\* update_message_token_count
NextStore ==
    \/ SaveMessage(1, 40000)
    \/ GetSmartHistory(1, HaikuOk)
    \/ \E i \in 1..MaxHist : \E n \in TokenCounts : UpdateMessageTokenCount(1, i, n)

SpecStore == InitHist /\ [][NextStore]_vars


\* SpecHaiku: the compactor is called with every run of the summarising model;
\* the store does not fail
NextHaiku ==
    \/ \E c \in {100, 40000} : SaveMessage(1, c)
    \/ \E run \in HaikuRuns : GetSmartHistory(1, run)

SpecHaiku == InitHist /\ [][NextHaiku]_vars


\* the value after the newest one in a list whose values are numbered in the
\* order of their first insertion
Fresh(xs) == IF xs = <<>> THEN 1 ELSE xs[Len(xs)] + 1

\* the batches of notes an extraction brings: nothing, a new note, a new note
\* twice, two new notes, the newest known note and a new one
NoteBatches(xs) ==
    {<<>>, <<Fresh(xs)>>, <<Fresh(xs), Fresh(xs)>>, <<Fresh(xs), Fresh(xs) + 1>>}
        \cup (IF xs = <<>> THEN {} ELSE {<<xs[Len(xs)], Fresh(xs)>>})

SmallBatches == {<<>>, <<1>>, <<1, 1>>, <<2>>, <<0>>}

\* the values handed to add_project_knowledge: for the gotchas the newest
\* known one or a new one, for the other lists one of two
AddValues(knowledge_type, xs) ==
    IF knowledge_type = "known_gotchas"
    THEN {Fresh(xs)} \cup (IF xs = <<>> THEN {} ELSE {xs[Len(xs)]})
    ELSE {1, 2}

\* SpecKnowledge: the knowledge of one project under merges from extractions
\* and calls of add_project_knowledge
InitKnowledge == InitHist

NextKnowledge ==
    \/ \E notes \in NoteBatches(knowledge[1].known_gotchas) :
         \E problems \in SmallBatches : \E decisions \in SmallBatches :
            /\ \A k \in DOMAIN notes : notes[k] <= MaxNotes
            /\ UpdateProjectKnowledge(1, decisions, problems, notes)
    \/ \E knowledge_type \in KnowledgeTypes :
         \E value \in AddValues(knowledge_type, knowledge[1][knowledge_type]) :
            /\ value <= MaxNotes
            /\ AddProjectKnowledge(1, knowledge_type, value)

SpecKnowledge == InitKnowledge /\ [][NextKnowledge]_vars


(***************************************************************************)
(* Claims                                                                  *)
(***************************************************************************)

RunningSessions(t) == {i \in DOMAIN sessions[t] : sessions[t][i] = "running"}

\* C1: in every reachable state every ticket has at most one
\* execution_sessions row with status 'running', also when the store writes
\* of create_session / end_session fail.
C1_OneRunningSessionPerTicket ==
    \A t \in TicketIds : Cardinality(RunningSessions(t)) <= 1

LiveThreads(p) == {k \in DOMAIN threads[p] : threads[p][k].alive}

\* C2: for every project at most one ProjectWorker thread is alive, and a
\* live thread is the one the registry holds for its project (a worker is
\* started only when the registry has no live worker for the project).
C2_OneLiveWorkerPerProject ==
    \A p \in DOMAIN threads :
        /\ Cardinality(LiveThreads(p)) <= 1
        /\ \A k \in LiveThreads(p) : workers[p] = k

\* the registered worker of a project is alive and replaces an earlier thread
\* of the project that has ended, while another project's worker is alive
C2_Witness ==
    \E p, q \in DOMAIN threads :
        /\ p # q
        /\ Len(threads[p]) = 2
        /\ ~threads[p][1].alive
        /\ threads[p][2].alive
        /\ workers[p] = 2
        /\ LiveThreads(q) # {}

LiveAgents(p) == {i \in DOMAIN procs[p] : procs[p][i].state # "exited"}

\* C3: within one project no two agent subprocesses run at the same time.
C3_NoAgentOverlap ==
    \A p \in DOMAIN procs : Cardinality(LiveAgents(p)) <= 1

AllLiveThreads == {w \in ThreadIds : Th(w).alive}

\* C4: the number of live worker threads never exceeds max_parallel.
C4_LiveWorkersWithinCap == Cardinality(AllLiveThreads) <= max_parallel

\* the cap is reached while a further candidate project waits for a worker
C4_Witness ==
    /\ Cardinality(AllLiveThreads) = max_parallel
    /\ sched.pc = "sleep"
    /\ \E p \in Candidates(projects, tickets) : LiveThreads(p) = {}

\* a step of startup recovery (DaemonStart: recover_orphaned_tickets has run)
RecoveryStep == sched.pc = "down" /\ sched'.pc = "cleanup"

SessionIds(S) == {x \in TicketIds \X (1..MaxSessions + 1) : x[2] \in DOMAIN S[x[1]]}

\* C7: after startup recovery every ticket that was in_progress is open, every
\* session that was running is stuck, no ticket is in_progress, no session is
\* running, and every other ticket and session is as it was.
C7_RecoveryResetsOrphans ==
    [][RecoveryStep =>
        /\ DOMAIN tickets' = DOMAIN tickets
        /\ \A t \in DOMAIN tickets :
              /\ tickets[t].status = "in_progress" => tickets'[t].status = "open"
              /\ tickets[t].status # "in_progress" => tickets'[t] = tickets[t]
              /\ tickets'[t].status # "in_progress"
        /\ SessionIds(sessions') = SessionIds(sessions)
        /\ \A x \in SessionIds(sessions) :
              /\ sessions[x[1]][x[2]] = "running" => sessions'[x[1]][x[2]] = "stuck"
              /\ sessions[x[1]][x[2]] # "running"
                    => sessions'[x[1]][x[2]] = sessions[x[1]][x[2]]
              /\ sessions'[x[1]][x[2]] # "running"]_vars

\* recovery has reset an orphaned ticket and an orphaned session of a worker
\* the previous daemon process left behind, next to a ticket that had ended
C7_Witness ==
    /\ starts = 2
    /\ sched.recovered = 2
    /\ \E t, u \in DOMAIN tickets :
          /\ tickets[t].status = "open"
          /\ sessions[t] # <<>>
          /\ sessions[t][Len(sessions[t])] = "stuck"
          /\ tickets[u].status \in {"awaiting_input", "failed"}
          /\ \E i \in DOMAIN sessions[u] : sessions[u][i] \in {"completed", "failed"}

CleanStore(T, S) ==
    /\ \A t \in DOMAIN T : T[t].status # "in_progress"
    /\ \A x \in SessionIds(S) : S[x[1]][x[2]] # "running"

\* C8: startup recovery is idempotent: what it leaves is a store it would not
\* change again, and on a store with no running session and no in_progress
\* ticket it changes no ticket row and no session row (zero rows written).
C8_RecoveryIdempotent ==
    [][RecoveryStep =>
        /\ CleanStore(tickets', sessions')
        /\ CleanStore(tickets, sessions) =>
              /\ tickets' = tickets
              /\ sessions' = sessions
              /\ sched'.recovered = 0]_vars

\* the daemon was started a second time on a store that the first run left
\* clean, with a stopped ticket waiting and sessions of several statuses
C8_Witness ==
    /\ starts = 2
    /\ ~SchedAt("down")
    /\ sched.recovered = 0
    /\ \E t \in DOMAIN tickets :
          tickets[t].status = "pending" /\ sessions[t] # <<>>
    /\ \E t \in DOMAIN tickets : \E i \in DOMAIN sessions[t] : sessions[t][i] = "stuck"

\* the priority order of the spec: critical > high > medium > low
Outranks(p, q) ==
    <<p, q>> \in {<<"critical", "high">>, <<"critical", "medium">>, <<"critical", "low">>,
                 <<"high", "medium">>, <<"high", "low">>, <<"medium", "low">>}

\* worker w takes a ticket from the queue in this step
Dequeues(w) ==
    /\ w \in ThreadIds
    /\ Th(w).pc = "loop"
    /\ threads'[w[1]][w[2]].pc = "start"

\* C9: the ticket a worker dequeues is a ticket of the worker's project with
\* status open, new or pending, and no other runnable ticket of the project
\* has a higher priority, or the same priority and an earlier creation time.
C9_DequeueOrder ==
    [][\A w \in ThreadIds : Dequeues(w) =>
          LET t == threads'[w[1]][w[2]].ticket IN
          /\ t \in DOMAIN tickets
          /\ tickets[t].project_id = w[1]
          /\ tickets[t].status \in {"open", "new", "pending"}
          /\ \A u \in DOMAIN tickets :
                (tickets[u].project_id = w[1] /\ tickets[u].status \in {"open", "new", "pending"})
                => /\ ~Outranks(tickets[u].priority, tickets[t].priority)
                   /\ ~(/\ tickets[u].priority = tickets[t].priority
                        /\ tickets[u].created_at < tickets[t].created_at)]_vars

\* a critical ticket has been dequeued while an older low ticket of the same
\* project is runnable
C9_Witness ==
    \E w \in ThreadIds :
        /\ Th(w).pc = "start"
        /\ tickets[Th(w).ticket].priority = "critical"
        /\ \E u \in DOMAIN tickets :
              /\ u # Th(w).ticket
              /\ tickets[u].project_id = w[1]
              /\ tickets[u].status \in {"open", "new", "pending"}
              /\ tickets[u].priority = "low"
              /\ tickets[u].created_at < tickets[Th(w).ticket].created_at

\* process_ticket takes the branch of outcome 'completed' with an empty inbox
CompletesTicket(w) ==
    /\ w \in ThreadIds
    /\ Th(w).pc = "outcome"
    /\ Th(w).result = "completed"
    /\ PendingIds(user_messages, Th(w).ticket) = {}
    /\ threads'[w[1]][w[2]].pc # "outcome"

\* process_ticket ends the session of a ticket it has just completed
EndsCompleted(w) ==
    /\ w \in ThreadIds
    /\ Th(w).pc = "end"
    /\ Th(w).end_status = "completed"
    /\ threads'[w[1]][w[2]].pc # "end"

\* C10: when a run ends 'completed' by the completion marker and the inbox of
\* the ticket is empty, the ticket goes from in_progress to awaiting_input
\* with a review deadline 7 days after the current time, and the session ends
\* with status 'completed'.
C10_CompletedAwaitsReview ==
    [][\A w \in ThreadIds :
          /\ CompletesTicket(w) =>
                /\ tickets[Th(w).ticket].status = "in_progress"
                /\ tickets'[Th(w).ticket].status = "awaiting_input"
                /\ tickets'[Th(w).ticket].review_deadline = now + 7 * 24 * 60
                /\ threads'[w[1]][w[2]].pc = "end"
                /\ threads'[w[1]][w[2]].end_status = "completed"
          /\ EndsCompleted(w) =>
                sessions'[Th(w).ticket][Th(w).session] = "completed"]_vars

\* a ticket completed at a later time than 0 awaits review: its deadline is 7
\* days after that time and its session is 'completed'
C10_Witness ==
    \E t \in DOMAIN tickets :
        /\ now > 0
        /\ tickets[t].status = "awaiting_input"
        /\ tickets[t].review_deadline = now + 7 * 24 * 60
        /\ sessions[t] # <<>>
        /\ sessions[t][Len(sessions[t])] = "completed"
        /\ \E i \in DOMAIN messages[t] : messages[t][i].role = "assistant"

\* the messages the ticket of the last call had that are flagged is_summarized
Flagged == {i \in 1..history.seen : messages[history.ticket][i].is_summarized}

\* the messages the last call returned
Returned == {history.rows[k].id : k \in DOMAIN history.rows}

\* C5: after every call of get_smart_history, whether or not create_extraction
\* succeeds, the ticket's messages flagged is_summarized and the messages
\* returned are disjoint and together are all messages of the ticket.
C5_FlaggedAndReturnedPartition ==
    history.called =>
        /\ Flagged \cap Returned = {}
        /\ Flagged \cup Returned = 1..history.seen

\* the estimated tokens of what the last call returned
ReturnedTokens == SumSeq([k \in DOMAIN history.rows |-> history.rows[k].chars \div 4])

\* C6: the estimated tokens of the messages get_smart_history returns sum to
\* at most the recent-token budget, on the under-threshold path and on the
\* recent-window path, where a message over the single-message cap is
\* truncated and included.
C6_ReturnedWithinBudget ==
    history.called => ReturnedTokens <= 50000

\* the recent window was returned: older messages were left out, a message
\* over the cap came back truncated, and the window is more than half full
C6_Witness ==
    /\ history.called
    /\ Len(history.rows) < history.seen
    /\ Len(history.rows) >= 3
    /\ \E k \in DOMAIN history.rows :
          /\ history.rows[k].token_count > 10000
          /\ history.rows[k].chars < messages[history.ticket][history.rows[k].id].chars
    /\ ReturnedTokens > 25000

\* a worker waits for output of a live agent that has shown no activity for
\* longer than the stuck timeout
SilentTooLong ==
    \E w \in ThreadIds :
        /\ At(w, "readline")
        /\ procs[w[1]][Th(w).proc].state = "running"
        /\ Stuck(Th(w).last_activity, now)

\* C11: when the agent produces no activity for longer than the stuck timeout
\* while the session is running, the run is terminated (and ends 'stuck'): a
\* run does not stay silent beyond the timeout for ever.
C11_SilentRunIsTerminated == SilentTooLong ~> ~SilentTooLong

\* get_smart_history is called for ticket t in this step
CompactorCall(t) ==
    /\ Len(messages'[t]) = Len(messages[t])
    /\ history' # history \/ messages' # messages \/ extractions' # extractions

\* the backlog of ticket t: its messages not flagged is_summarized
Backlog(t) == {i \in 1..Len(messages[t]) : ~messages[t][i].is_summarized}

EstimatedTokens(t, i) == messages[t][i].chars \div 4

CappedTokens(t, i) == IF EstimatedTokens(t, i) > 10000 THEN 10000 ELSE EstimatedTokens(t, i)

RECURSIVE SumOver(_, _)
SumOver(S, f) ==
    IF S = {} THEN 0
    ELSE LET x == CHOOSE y \in S : TRUE IN f[x] + SumOver(S \ {x}, f)

BacklogTokens(t) == SumOver(Backlog(t), [i \in Backlog(t) |-> EstimatedTokens(t, i)])

CappedSum(t, S) == SumOver(S, [i \in S |-> CappedTokens(t, i)])

ReturnedNext == {history'.rows[k].id : k \in DOMAIN history'.rows}

\* C12: with the backlog at or above the extraction threshold
\* get_smart_history returns, in insertion order, exactly the longest suffix of
\* the backlog whose capped estimated tokens fit in the recent budget; the
\* older rest is flagged is_summarized, and the new conversation_extractions
\* row covers the range that holds exactly the messages it flagged.
C12_LongestSuffixKeptRestExtracted ==
    [][\A t \in DOMAIN tickets :
          (CompactorCall(t) /\ BacklogTokens(t) >= 50000) =>
          LET kept == ReturnedNext
              rest == Backlog(t) \ kept
          IN /\ kept \subseteq Backlog(t)
             /\ \A k \in DOMAIN history'.rows :
                   k > 1 => history'.rows[k - 1].id < history'.rows[k].id
             /\ \A i \in kept, j \in Backlog(t) : j > i => j \in kept
             /\ CappedSum(t, kept) <= 50000
             /\ \A j \in rest :
                   (\A i \in rest : i <= j) => CappedSum(t, kept \cup {j}) > 50000
             /\ \A i \in 1..Len(messages[t]) :
                   messages'[t][i].is_summarized <=>
                       (messages[t][i].is_summarized \/ i \in rest)
             /\ IF rest = {} THEN extractions' = extractions
                ELSE /\ Len(extractions') = Len(extractions) + 1
                     /\ SubSeq(extractions', 1, Len(extractions)) = extractions
                     /\ LET e == extractions'[Len(extractions')]
                        IN /\ e.ticket_id = t
                           /\ e.messages_summarized = Cardinality(rest)
                           /\ {i \in 1..Len(messages[t]) :
                                 e.covers_msg_from_id <= i /\ i <= e.covers_msg_to_id} = rest]_vars

\* a second extraction of the ticket has covered two messages, behind an
\* earlier one, and five messages were kept
C12_Witness ==
    /\ history.called
    /\ Len(history.rows) = 5
    /\ Len(extractions) = 2
    /\ extractions[2].covers_msg_from_id > extractions[1].covers_msg_to_id
    /\ extractions[1].messages_summarized + extractions[2].messages_summarized = 2
    /\ \E k \in DOMAIN history.rows : history.rows[k].chars = 100

\* the length of a content of n estimated tokens cut to the first 40% and the
\* last 40% of the cap's 40000 characters around "truncated N tokens"
TruncatedChars(n) == 16000 + 17 + DecimalDigits(n - 10000) + 14 + 16000

\* C13: every returned message whose estimated tokens exceed the
\* single-message cap is returned truncated (first 40%, marker, last 40%) and
\* counts at most the cap, below the extraction threshold as well as in the
\* recent window.
C13_OversizedReturnedTruncated ==
    history.called =>
        \A k \in DOMAIN history.rows :
            LET original == messages[history.ticket][history.rows[k].id].chars \div 4
            IN original > 10000 =>
                  /\ history.rows[k].chars = TruncatedChars(original)
                  /\ history.rows[k].chars \div 4 <= 10000

\* the messages of ticket t inside the range of an extraction row
CoveredBy(row) == row.covers_msg_from_id .. row.covers_msg_to_id

FlaggedOf(t) == {i \in DOMAIN messages[t] : messages[t][i].is_summarized}

RowsOf(t) == {e \in DOMAIN extractions : extractions[e].ticket_id = t}

\* C14: in every store state, an extraction row and the flags of the
\* messages it covers exist together: every message in the range of a row is
\* flagged, the row counts exactly its range, and every flagged message is in
\* the range of exactly one row, also after create_extraction has failed at
\* any of its steps
C14_ExtractionAndFlagsAtomic ==
    \A t \in DOMAIN tickets :
        /\ \A e \in RowsOf(t) :
              /\ CoveredBy(extractions[e]) \subseteq FlaggedOf(t)
              /\ extractions[e].messages_summarized
                    = Cardinality(CoveredBy(extractions[e]))
        /\ \A i \in FlaggedOf(t) :
              Cardinality({e \in RowsOf(t) : i \in CoveredBy(extractions[e])}) = 1

\* an extraction has been committed and a later call has lost its older
\* messages to a failed create_extraction
C14_Witness ==
    /\ history.called
    /\ Len(extractions) >= 1
    /\ \E i \in 1..history.seen :
          /\ history.seen = Len(messages[history.ticket])
          /\ i \notin Flagged
          /\ i \notin Returned

\* C15: every step keeps every persisted message of every ticket, changes no
\* field of it other than is_summarized, and never sets is_summarized back to
\* false.
C15_MessagesAppendOnly ==
    [][\A t \in DOMAIN messages : \A i \in DOMAIN messages[t] :
          /\ i \in DOMAIN messages'[t]
          /\ messages'[t][i] = [messages[t][i] EXCEPT
                                  !.is_summarized = messages'[t][i].is_summarized]
          /\ messages[t][i].is_summarized => messages'[t][i].is_summarized]_vars

\* the run of the summarising model gives a usable extraction: exit code 0 and
\* a JSON object with at least one key, none of them null
Usable(run) ==
    /\ ~run.timeout
    /\ run.returncode = 0
    /\ run.stdout.json = "object"
    /\ run.stdout.keys # {}
    /\ run.stdout.nulls = {}

OlderOf(t) == get_smart_history(messages, t).older

IdsOf(ids) == {ids[k] : k \in DOMAIN ids}

\* C16: a call of get_smart_history that hands older messages to
\* create_extraction while the summarising invocation fails, times out or
\* returns unusable output still appends an extraction row covering exactly
\* those messages, with no decisions, no problems and the status
\* "Processed N messages", and flags them, so that none of them is both
\* unflagged and absent from the returned history.
C16_SummariserFailureFallsBack ==
    [][\A run \in HaikuRuns :
          (GetSmartHistory(1, run) /\ ~Usable(run) /\ OlderOf(1) # <<>>)
              => /\ Len(extractions') = Len(extractions) + 1
                 /\ LET row == extractions'[Len(extractions')]
                        older == OlderOf(1)
                    IN /\ row.ticket_id = 1
                       /\ row.covers_msg_from_id = older[1]
                       /\ row.covers_msg_to_id = older[Len(older)]
                       /\ row.decisions = <<>>
                       /\ row.problems_solved = <<>>
                       /\ row.current_status = Processed(Len(older))
                       /\ IdsOf(older) \subseteq FlaggedOf(1)'
                       /\ \A i \in DOMAIN messages[1] :
                             i \in FlaggedOf(1)' \/ i \in ReturnedNext]_vars

NoDuplicates(xs) == \A j, k \in DOMAIN xs : xs[j] = xs[k] => j = k

\* C17: in every state, each knowledge list of every project (gotchas, error
\* solutions, architecture decisions) holds no two equal entries.
C17_KnowledgeListsHaveNoDuplicates ==
    \A p \in DOMAIN knowledge : \A knowledge_type \in KnowledgeTypes :
        NoDuplicates(knowledge[p][knowledge_type])

\* xs is a prefix of ys
IsPrefix(xs, ys) == Len(xs) <= Len(ys) /\ SubSeq(ys, 1, Len(xs)) = xs

\* C18: every step leaves each knowledge list with at most N entries, and
\* drops entries only from its oldest end and only to make room: what it
\* keeps of the list is a suffix of it, followed by the entries just inserted.
C18_KnowledgeListsKeepNewestN ==
    [][\A p \in DOMAIN knowledge : \A knowledge_type \in KnowledgeTypes :
          LET old == knowledge[p][knowledge_type]
              new == knowledge'[p][knowledge_type]
          IN /\ Len(new) <= KNOWLEDGE_KEEP
             /\ \E j \in 0..Len(old) :
                   /\ IsPrefix(SubSeq(old, j + 1, Len(old)), new)
                   /\ j > 0 => Len(new) = KNOWLEDGE_KEEP]_vars

\* the feedback rows of ticket t that a step marks processed
ConsumedFeedback(t) ==
    {i \in DOMAIN user_messages[t] :
        /\ ~user_messages[t][i].processed
        /\ user_messages'[t][i].processed
        /\ user_messages[t][i].content \notin ControlCommands}

\* the messages of ticket t that a step appends
Appended(t) == SubSeq(messages'[t], Len(messages[t]) + 1, Len(messages'[t]))

\* C19: every step that marks inbox rows of a ticket processed appends one
\* user message to the ticket's conversation for each of those rows whose
\* content is not /skip, /done or /stop.
C19_ConsumedFeedbackIsPersisted ==
    [][\A t \in DOMAIN user_messages :
          ConsumedFeedback(t) # {} =>
              /\ Len(Appended(t)) = Cardinality(ConsumedFeedback(t))
              /\ \A k \in DOMAIN Appended(t) : Appended(t)[k].role = "user"]_vars

\* run_claude returns in this step
RunReturns(w) ==
    /\ At(w, "poll") \/ At(w, "readline")
    /\ threads'[w[1]][w[2]].pc = "outcome"

\* the outcome the precedence rule gives the run that returns in this step
OutcomeByPrecedence(w) ==
    LET th == Th(w)
        proc == procs[th.project_id][th.proc]
        c == FirstControl(user_messages, th.ticket, PendingIds(user_messages, th.ticket))
    IN IF At(w, "poll")
       THEN (IF c # "none" THEN ControlOutcome(c) ELSE "stopped")
       ELSE IF threads'[w[1]][w[2]].result = "stuck"
                 /\ Stuck(threads'[w[1]][w[2]].last_activity, now)
       THEN "stuck"
       ELSE IF th.result = "completed" THEN "completed"
       ELSE IF proc.state = "exited" /\ proc.code = 0 THEN "success"
       ELSE "failed"

\* C20: the outcome of a run is that of the first control signal of the read
\* loop (a user command, the stop flag, stuck detection); without one it is
\* 'completed' when a completion marker was seen on any line of the run, and
\* otherwise 'success' for exit code 0 and 'failed' for any other end.
C20_OutcomeByPrecedence ==
    [][\A w \in ThreadIds :
          RunReturns(w) => threads'[w[1]][w[2]].result = OutcomeByPrecedence(w)]_vars

\* the poll of run_claude's read loop finds c as the first control command
PollsControl(w, c) ==
    /\ At(w, "poll")
    /\ FirstControl(user_messages, Th(w).ticket,
                    PendingIds(user_messages, Th(w).ticket)) = c
    /\ w[2] \in DOMAIN threads'[w[1]]
    /\ threads'[w[1]][w[2]].pc # "poll"

\* process_ticket takes the branch of a run_claude result
Branches(w, result) ==
    /\ At(w, "outcome")
    /\ Th(w).result = result
    /\ w[2] \in DOMAIN threads'[w[1]]
    /\ threads'[w[1]][w[2]].pc # "outcome"

\* process_ticket ends the session with a status it has chosen
EndsSessionAs(w, status) ==
    /\ At(w, "end")
    /\ Th(w).end_status = status
    /\ w[2] \in DOMAIN threads'[w[1]]
    /\ threads'[w[1]][w[2]].pc # "end"

\* the agent process of the worker has been sent SIGTERM or is gone
Terminated(P, w) == P[Th(w).project_id][Th(w).proc].state # "running"

PendingFeedback(t) ==
    {i \in PendingIds(user_messages, t) :
        user_messages[t][i].content \notin ControlCommands}

\* a row of the inbox of ticket t with content c has been consumed
Consumed(t, c) ==
    \E i \in DOMAIN user_messages[t] :
        user_messages[t][i].content = c /\ user_messages[t][i].processed

\* C22: when the read loop of a run finds /done as the first control command
\* of a ticket in_progress, the agent process is terminated and the run ends
\* 'completed'; with no feedback pending, process_ticket then moves the ticket
\* to awaiting_input with a review deadline 7 days ahead and ends the session
\* 'completed', as it does after a completion marker.
C22_DoneAwaitsReview ==
    [][\A w \in ThreadIds :
          /\ (PollsControl(w, "/done") /\ tickets[Th(w).ticket].status = "in_progress")
                => /\ Terminated(procs', w)
                   /\ threads'[w[1]][w[2]].pc = "outcome"
                   /\ threads'[w[1]][w[2]].result = "completed"
          /\ (/\ Branches(w, "completed")
              /\ Consumed(Th(w).ticket, "/done")
              /\ PendingFeedback(Th(w).ticket) = {})
                => /\ tickets'[Th(w).ticket].status = "awaiting_input"
                   /\ tickets'[Th(w).ticket].review_deadline
                         = now + REVIEW_DAYS * MINUTES_PER_DAY
                   /\ threads'[w[1]][w[2]].pc = "end"
                   /\ threads'[w[1]][w[2]].end_status = "completed"]_vars

\* C23: when the read loop of a run finds /stop as the first control command
\* the run ends 'interrupted'; whenever the rows then pending at the inbox hold
\* no feedback (no row, or only slash commands), process_ticket sets the
\* ticket to open and ends the session with status 'stopped'.
C23_StopWithoutFeedbackReopens ==
    [][\A w \in ThreadIds :
          /\ (PollsControl(w, "/stop") /\ tickets[Th(w).ticket].status = "in_progress")
                => /\ Terminated(procs', w)
                   /\ threads'[w[1]][w[2]].pc = "outcome"
                   /\ threads'[w[1]][w[2]].result = "interrupted"
          /\ (Branches(w, "interrupted") /\ PendingFeedback(Th(w).ticket) = {})
                => /\ tickets'[Th(w).ticket].status = "open"
                   /\ threads'[w[1]][w[2]].pc = "end"
                   /\ threads'[w[1]][w[2]].end_status = "stopped"
          /\ EndsSessionAs(w, "stopped")
                => sessions'[Th(w).ticket][Th(w).session] = "stopped"]_vars

\* one role 'user' for each of the rows ids, in inbox order
RECURSIVE FeedbackRoles(_, _)
FeedbackRoles(t, ids) ==
    IF ids = {} THEN <<>>
    ELSE LET i == CHOOSE j \in ids : \A k \in ids : j <= k
         IN <<"user">> \o FeedbackRoles(t, ids \ {i})

RunnerReturns(w) ==
    /\ At(w, "spawn") \/ At(w, "readline")
    /\ threads'[w[1]][w[2]].pc = "outcome"

StopFlag(w) == ~Th(w).running \/ ~daemon_running

\* C27: when an iteration of the read loop finds the stop flag of the daemon
\* or of the worker set (and no control command at the inbox), the agent
\* process is terminated and the run ends 'stopped'; process_ticket then
\* sets the ticket to pending, a status get_next_ticket selects, and ends the
\* session with status 'stopped'.
C27_StopFlagRevertsToPending ==
    [][\A w \in ThreadIds :
          /\ (PollsControl(w, "none") /\ StopFlag(w))
                => /\ Terminated(procs', w)
                   /\ threads'[w[1]][w[2]].pc = "outcome"
                   /\ threads'[w[1]][w[2]].result = "stopped"
          /\ Branches(w, "stopped")
                => /\ tickets'[Th(w).ticket].status = "pending"
                   /\ Th(w).ticket \in RunnableOf(tickets', Th(w).project_id)
                   /\ threads'[w[1]][w[2]].pc = "end"
                   /\ threads'[w[1]][w[2]].end_status = "stopped"
          /\ (EndsSessionAs(w, "stopped") /\ Th(w).result = "stopped")
                => sessions'[Th(w).ticket][Th(w).session] = "stopped"]_vars

\* a ticket whose run was stopped by the flag, left pending with its session
\* ended 'stopped', and taken up again by the daemon process started next
C27_Witness ==
    \E t \in DOMAIN tickets :
        /\ starts = 2
        /\ tickets[t].status = "in_progress"
        /\ \E i \in DOMAIN sessions[t] :
              /\ i < Len(sessions[t])
              /\ sessions[t][i] = "stopped"
              /\ sessions[t][Len(sessions[t])] = "running"

\* the rows the UPDATE of auto_close_expired_reviews matches: awaiting_input,
\* with a review deadline, and the deadline strictly before the clock
Expired(t) ==
    /\ tickets[t].status = "awaiting_input"
    /\ tickets[t].review_deadline # None
    /\ tickets[t].review_deadline < now

\* C28: a maintenance pass sets to done, with close reason auto_closed_7days
\* and the deadline cleared, exactly the awaiting_input tickets whose review
\* deadline is strictly in the past, and leaves every other ticket as it was
\* (an awaiting_input ticket whose deadline has not passed or is unset
\* included); no step makes a ticket done from a status other than
\* awaiting_input, and only the maintenance pass makes a ticket done.
C28_AutoCloseExactlyExpired ==
    [][\A t \in DOMAIN tickets :
          /\ SchedAt("autoclose") /\ sched'.pc # "autoclose"
                => IF Expired(t)
                   THEN /\ tickets'[t].status = "done"
                        /\ tickets'[t].close_reason = "auto_closed_7days"
                        /\ tickets'[t].review_deadline = None
                   ELSE tickets'[t] = tickets[t]
          /\ (tickets[t].status # "done" /\ tickets'[t].status = "done")
                => /\ tickets[t].status = "awaiting_input"
                   /\ SchedAt("autoclose")
                   /\ Expired(t)]_vars

\* one ticket auto-closed by a pass that left the other, awaiting input with
\* its deadline still ahead, as it was
C28_Witness ==
    \E t, u \in DOMAIN tickets :
        /\ tickets[t].status = "done"
        /\ tickets[t].close_reason = "auto_closed_7days"
        /\ tickets[t].review_deadline = None
        /\ tickets[u].status = "awaiting_input"
        /\ tickets[u].review_deadline > now
        /\ sched.pc = "query"

\* the scheduler starts a worker thread in this step
StartsWorker == \E p \in DOMAIN threads : Len(threads'[p]) > Len(threads[p])

\* every worker in the registry has been told to stop
AllSignalled(W, TH) == \A p \in DOMAIN W : W[p] # None => ~TH[p][W[p]].running

\* the row of daemon_status is set to 'stopped' in this step
WritesStopped == daemon_status # "stopped" /\ daemon_status' = "stopped"

\* C29: once the stop flag is set the scheduler starts no worker; the step
\* that leaves the scheduler loop tells every registered worker to stop; the
\* daemon status is written 'stopped' only after that and after the joins
\* have returned; and the startup recovery of the next daemon process sets
\* every ticket that was left in_progress to open.
C29_ShutdownInOrder ==
    [][/\ StartsWorker => daemon_running
       /\ (SchedAt("cleanup") /\ sched'.pc = "joining")
             => AllSignalled(workers', threads')
       /\ WritesStopped
             => /\ SchedAt("status")
                /\ ~daemon_running
                /\ AllSignalled(workers, threads)
       /\ RecoveryStep
             => \A t \in DOMAIN tickets :
                   tickets[t].status = "in_progress" => tickets'[t].status = "open"]_vars

\* the lines that are no recognized event
Unrecognized == {"garbage", "nonobject"}

\* C30: a read-loop iteration that reads a line that is no recognized event
\* (and does not find the stuck timeout passed) keeps the run's result, goes
\* on to the next iteration of the read loop, and saves no conversation
\* message.
C30_UnrecognizedLineNotFatal ==
    [][\A w \in ThreadIds, kind \in Unrecognized :
          (WorkerReadLine(w, kind) /\ ~Stuck(Th(w).last_activity, now))
             => /\ threads'[w[1]][w[2]].result = Th(w).result
                /\ threads'[w[1]][w[2]].pc = "poll"
                /\ messages' = messages]_vars

\* project p comes no later than project q by the best priority of their
\* runnable tickets: no runnable ticket of q outranks every runnable ticket of p
NoLaterByBest(T, p, q) ==
    ~\E t \in RunnableOf(T, q) :
        \A u \in RunnableOf(T, p) : Outranks(T[t].priority, T[u].priority)

\* C31: the candidates a scheduler pass gets are exactly the active projects
\* with an open, new or pending ticket, each once, in ascending order of the
\* best priority among their runnable tickets; the pass goes through them in
\* that order, starts a worker only for the project at the head and only
\* below the cap, and passes over a project only when it has a live worker.
C31_SlotsByPriority ==
    [][/\ (SchedAt("query") /\ sched'.pc = "count")
             => LET s == sched'.cands IN
                /\ {s[i] : i \in DOMAIN s}
                      = {p \in DOMAIN projects :
                            /\ projects[p] = "active"
                            /\ \E t \in DOMAIN tickets :
                                  /\ tickets[t].project_id = p
                                  /\ tickets[t].status \in {"open", "new", "pending"}}
                /\ \A i, j \in DOMAIN s : i < j =>
                      /\ s[i] # s[j]
                      /\ NoLaterByBest(tickets, s[i], s[j])
       /\ (SchedAt("assign") /\ sched'.pc = "assign" /\ sched' # sched)
             => /\ sched.cands # <<>>
                /\ sched.active_count < max_parallel
                /\ sched'.cands = Tail(sched.cands)
                /\ \A p \in DOMAIN threads :
                      Len(threads'[p]) > Len(threads[p]) => p = Head(sched.cands)
                /\ ~StartsWorker =>
                      /\ workers[Head(sched.cands)] # None
                      /\ is_alive(Head(sched.cands), workers[Head(sched.cands)])]_vars

\* a pass found three candidate projects and two free slots: the projects
\* whose best ticket is high got the workers, the project whose only ticket
\* is low got none
C31_Witness ==
    /\ SchedAt("sleep")
    /\ workers[1] = None /\ workers[2] # None /\ workers[3] # None
    /\ Cardinality(AllLiveThreads) = 2
    /\ \A t \in RunnableOf(tickets, 1) : tickets[t].priority = "low"
    /\ RunnableOf(tickets, 1) # {}
    /\ RunnableOf(tickets, 4) # {}

\* the project-level blocks of a context
ProjectBlocks == {"user", "project_map", "project_knowledge", "android", "dotnet"}

\* C32: after a call of build_full_context for a ticket that has an
\* extraction when the call returns, the context ends with the block of the
\* ticket's latest extraction, every block before it is a project-level
\* block, and the important notes, when the extraction has any, are the
\* first section of the block.
C32_ContextShowsLatestExtraction ==
    (history.called /\ RowsOf(history.ticket) # {}) =>
        LET parts == history.system_context
            latest == CHOOSE e \in RowsOf(history.ticket) :
                         \A f \in RowsOf(history.ticket) : f <= e
        IN /\ parts # <<>>
           /\ parts[Len(parts)].block = "extraction"
           /\ parts[Len(parts)].id = latest
           /\ \A k \in 1..(Len(parts) - 1) : parts[k].block \in ProjectBlocks
           /\ extractions[latest].important_notes # <<>>
                 => parts[Len(parts)].sections[1] = "important_notes"

\* the worker builds the prompt and starts the agent in this step
BuildsPrompt(w) ==
    /\ At(w, "spawn")
    /\ w[2] \in DOMAIN threads'[w[1]]
    /\ threads'[w[1]][w[2]].pc # "spawn"

\* C33: the conversation history a worker places in the prompt of an agent
\* run is the working history of the compactor for the ticket: the
\* unsummarized messages within the token budget.
C33_PromptUsesCompactorHistory ==
    [][\A w \in ThreadIds :
          BuildsPrompt(w) =>
              LET recent == get_smart_history(messages, Th(w).ticket).recent
              IN {Th(w).history[k] : k \in DOMAIN Th(w).history}
                    = {recent[k].id : k \in DOMAIN recent}]_vars

\* C34: an exception raised by a statement of process_ticket is caught by
\* the worker loop: the scheduler, the registry and every other worker thread
\* are as they were, and the worker is alive at the head of its loop; an
\* exception raised in a scheduler pass is caught by the scheduler loop: the
\* daemon keeps running, the pass ends at the sleep before the next pass, and
\* no worker thread is touched.
C34_ExceptionsCaughtAtLoopBoundary ==
    [][/\ \A w \in ThreadIds :
             WorkerRaise(w) =>
                /\ sched' = sched
                /\ daemon_running' = daemon_running
                /\ workers' = workers
                /\ \A v \in ThreadIds \ {w} : threads'[v[1]][v[2]] = Th(v)
                /\ threads'[w[1]][w[2]].alive
                /\ threads'[w[1]][w[2]].pc = "loop"
       /\ SchedRaise =>
             /\ daemon_running'
             /\ sched'.pc = "sleep"
             /\ threads' = threads
             /\ workers' = workers]_vars

\* a worker whose process_ticket raised after ticket 1 was set in_progress
\* has gone on to ticket 2, next to a live worker of the other project
C34_Witness ==
    /\ tickets[1].status = "in_progress"
    /\ sessions[1] = <<"running">>
    /\ \E w \in ThreadIds :
          /\ Th(w).alive /\ Th(w).project_id = 1
          /\ Th(w).ticket = 2 /\ Th(w).pc = "poll"
          /\ \A v \in ThreadIds : Th(v).project_id = 1 => v = w
    /\ \E v \in ThreadIds : Th(v).alive /\ Th(v).project_id = 2
    /\ daemon_running

\* the tokens recorded for the sessions of a ticket
SessionTokens(t) == SumSeq(usage.sessions[t])

\* C35: in every state a ticket's total_tokens is the sum of the tokens_used
\* of its sessions, and a project's total_tokens is the sum of the
\* tokens_used of the sessions of its tickets.
C35_UsageRollsUp ==
    /\ \A t \in DOMAIN tickets : usage.tickets[t] = SessionTokens(t)
    /\ \A p \in DOMAIN projects :
          usage.projects[p]
             = SumSeq([t \in TicketIds |->
                          IF t \in DOMAIN tickets /\ tickets[t].project_id = p
                          THEN SessionTokens(t) ELSE 0])

\* C36: process_ticket sets a ticket to failed only for a run that ended
\* 'failed' (a non-zero exit code or an error of the runner): a run that
\* ended 'success' (exit code 0, no marker, no control signal) does not make
\* the ticket failed.
C36_FailedOnlyAfterFailedRun ==
    [][\A w \in ThreadIds :
          /\ Branches(w, "success") => tickets'[Th(w).ticket].status # "failed"
          /\ (/\ At(w, "outcome")
              /\ w[2] \in DOMAIN threads'[w[1]]
              /\ threads'[w[1]][w[2]].pc # "outcome"
              /\ tickets'[Th(w).ticket].status = "failed")
                => Th(w).result = "failed"]_vars

\* the (ticket status, session status) pairs process_ticket may leave behind
ReturnPairs ==
    {<<"awaiting_input", "completed">>, <<"open", "skipped">>, <<"open", "stopped">>,
     <<"pending", "stopped">>, <<"stuck", "stuck">>, <<"failed", "failed">>}

\* the step on which process_ticket returns: end_session was called (with or
\* without its UPDATE taking effect) and the pointers are cleared
Returns(w) == WorkerEndSession(w) \/ WorkerEndSessionFail(w)

\* C37: when process_ticket returns, the session it created is not 'running',
\* the worker's ticket and session pointers are cleared, and the pair (ticket
\* status, session status) is one of ReturnPairs; in particular the ticket is
\* not in_progress.
C37_ReturnLeavesConsistentPair ==
    [][\A w \in ThreadIds :
          (Returns(w) /\ Th(w).session # None) =>
             LET t == Th(w).ticket
                 sid == Th(w).session
             IN /\ sessions'[t][sid] # "running"
                /\ threads'[w[1]][w[2]].ticket = None
                /\ threads'[w[1]][w[2]].session = None
                /\ tickets'[t].status # "in_progress"
                /\ <<tickets'[t].status, sessions'[t][sid]>> \in ReturnPairs]_vars

\* the ticket was stopped by '/stop' without feedback and nothing new has
\* arrived for it: it is open, its latest session is 'stopped', its inbox has
\* no unprocessed row
StoppedWaiting(t) ==
    /\ tickets[t].status = "open"
    /\ sessions[t] # <<>>
    /\ sessions[t][Len(sessions[t])] = "stopped"
    /\ PendingIds(user_messages, t) = {}

\* C38: a ticket stopped by '/stop' without feedback waits for the user: while
\* it is open with its session 'stopped' and no new user message has arrived,
\* no worker takes it and no session is created for it.
C38_StoppedTicketWaitsForUser ==
    [][\A t \in DOMAIN tickets :
          StoppedWaiting(t) =>
             /\ Len(sessions'[t]) = Len(sessions[t])
             /\ \A w \in ThreadIds :
                   (w[2] \in DOMAIN threads'[w[1]] /\ Th(w).ticket # t)
                      => threads'[w[1]][w[2]].ticket # t]_vars

(***************************************************************************)
(* get_pending_user_messages in two steps: the SELECT and the UPDATE         *)
(***************************************************************************)

\* get_pending_user_messages, the SELECT: the unprocessed rows of the ticket
\* are fetched
WorkerPollRead(w) ==
    /\ At(w, "poll")
    /\ threads' = [threads EXCEPT ![w[1]][w[2]] =
          [@ EXCEPT !.pc = "polled",
                    !.polled = PendingIds(user_messages, Th(w).ticket)]]
    /\ UNCHANGED <<storeVars, daemon_running, sched, workers, procs, now, starts>>

\* get_pending_user_messages, the UPDATE ... WHERE id IN (ids) and the commit,
\* then run_claude goes on with the rows returned as WorkerPoll does
WorkerPollUpdate(w) ==
    /\ At(w, "polled")
    /\ LET th == Th(w)
           ids == th.polled
           c == FirstControl(user_messages, th.ticket, ids)
       IN /\ user_messages' = MarkProcessed(user_messages, th.ticket, ids)
          /\ IF c # "none"
             THEN /\ procs' = terminate(procs, th.project_id, th.proc)
                  /\ threads' = [threads EXCEPT ![w[1]][w[2]] =
                        [th EXCEPT !.pc = "outcome", !.result = ControlOutcome(c),
                                   !.polled = {}]]
             ELSE IF ~th.running \/ ~daemon_running
             THEN /\ procs' = terminate(procs, th.project_id, th.proc)
                  /\ threads' = [threads EXCEPT ![w[1]][w[2]] =
                        [th EXCEPT !.pc = "outcome", !.result = "stopped",
                                   !.polled = {}]]
             ELSE /\ procs' = procs
                  /\ threads' = [threads EXCEPT ![w[1]][w[2]] =
                        [th EXCEPT !.pc = "readline", !.polled = {}]]
    /\ UNCHANGED <<projects, knowledge, daemon_status, usage, tickets, sessions, messages, extractions, history,
                   daemon_running, sched, workers, now, starts>>

\* SpecInbox: Spec with the inbox poll of run_claude in its two steps, the
\* user inserting rows at any moment
NextInbox ==
    \/ \E w \in ThreadIds : WorkerLoop(w)
    \/ \E w \in ThreadIds : WorkerRecheck(w)
    \/ \E w \in ThreadIds : WorkerStart(w)
    \/ \E w \in ThreadIds : WorkerSpawn(w)
    \/ \E w \in ThreadIds : WorkerPollRead(w)
    \/ \E w \in ThreadIds : WorkerPollUpdate(w)
    \/ \E w \in ThreadIds : WorkerReadLine(w, "marker")
    \/ \E w \in ThreadIds : WorkerReadEOF(w)
    \/ \E w \in ThreadIds : WorkerOutcome(w)
    \/ \E w \in ThreadIds : WorkerEndSession(w)
    \/ AgentNext({0, 1})
    \/ SchedNext
    \/ \E t \in DOMAIN tickets, c \in UserContents : UserSend(t, c)

SpecInbox == Init /\ [][NextInbox]_vars

\* the rows of ticket t that are marked processed
ProcessedIds(U, t) == DOMAIN U[t] \ PendingIds(U, t)

\* a call of get_pending_user_messages by thread w returns the rows ids on
\* this step
ReturnsRows(w, ids) ==
    \/ WorkerPollUpdate(w) /\ ids = Th(w).polled
    \/ /\ WorkerOutcome(w)
       /\ Th(w).result \in {"interrupted", "completed"}
       /\ ids = PendingIds(user_messages, Th(w).ticket)

\* C39: every inbox row is delivered at most once: the rows a call of
\* get_pending_user_messages returns were unprocessed until then and are
\* marked processed by that call; a processed row stays processed, so no
\* later call returns it; and only the rows returned are marked, so a row
\* inserted between the SELECT and the UPDATE stays unprocessed.
C39_InboxDeliveredOnce ==
    [][\A t \in DOMAIN tickets :
          /\ \A w \in ThreadIds, ids \in SUBSET DOMAIN user_messages[t] :
                (Th(w).ticket = t /\ ReturnsRows(w, ids)) =>
                   /\ ids \subseteq PendingIds(user_messages, t)
                   /\ ProcessedIds(user_messages', t) = ProcessedIds(user_messages, t) \cup ids
          /\ ProcessedIds(user_messages, t) \subseteq ProcessedIds(user_messages', t)
          /\ ProcessedIds(user_messages', t) # ProcessedIds(user_messages, t)
                => \E w \in ThreadIds, ids \in SUBSET DOMAIN user_messages[t] :
                      Th(w).ticket = t /\ ReturnsRows(w, ids)]_vars

\* a row was inserted between the SELECT and the UPDATE of a poll that
\* fetched a row
C39_Witness ==
    \E w \in ThreadIds :
       /\ At(w, "polled")
       /\ Th(w).polled # {}
       /\ PendingIds(user_messages, Th(w).ticket) \ Th(w).polled # {}

(***************************************************************************)
(* Progress: every thread that can run is scheduled, every agent exits      *)
(***************************************************************************)

\* SpecLive: three active projects, one of them with two tickets, two worker
\* slots; no user, no signal; the agent exits with code 0, that of project 1 after
\* the marker, the others after nothing
InitLive ==
    /\ daemon_status = "stopped"
    /\ projects = [p \in 1..3 |-> "active"]
    /\ usage = NoUsage
    /\ tickets = (1 :> Ticket(1, "low", 1, "open") @@ 2 :> Ticket(2, "high", 2, "new")
                  @@ 3 :> Ticket(3, "high", 3, "pending")
                  @@ 4 :> Ticket(1, "high", 4, "open"))
    /\ EmptyStore
    /\ DaemonDown

\* one step of worker thread w
WorkerStep(w) ==
    \/ WorkerLoop(w)
    \/ WorkerRecheck(w)
    \/ WorkerStart(w)
    \/ WorkerSpawn(w)
    \/ WorkerPoll(w)
    \/ WorkerReadEOF(w)
    \/ WorkerOutcome(w)
    \/ WorkerEndSession(w)

\* the agent of project 1 prints the completion marker as its first line
AgentPrintsMarker(w) ==
    /\ w[1] = 1
    /\ At(w, "readline")
    /\ procs[w[1]][Th(w).proc].lines = 0
    /\ WorkerReadLine(w, "marker")

\* an agent exits with code 0, that of project 1 once its line is printed
AgentExitsLive ==
    \E pid \in DOMAIN procs : \E p \in DOMAIN procs[pid] :
        /\ pid = 1 => procs[pid][p].lines = 1
        /\ AgentExit(pid, p, 0)

NextLive ==
    \/ WorkerCore
    \/ \E w \in ThreadIds : AgentPrintsMarker(w)
    \/ AgentExitsLive
    \/ SchedNext

\* the main thread is scheduled whenever it can take a step, so is some
\* worker thread whenever one can, and an agent that runs exits
Fairness ==
    /\ WF_vars(SchedNext)
    /\ WF_vars(\E w \in ThreadIds : WorkerStep(w) \/ AgentPrintsMarker(w))
    /\ WF_vars(AgentExitsLive)

SpecLive == InitLive /\ [][NextLive]_vars /\ Fairness

\* ticket t is in a status the worker's query selects, in an active project
RunnableTicket(t) ==
    /\ t \in DOMAIN tickets
    /\ tickets[t].status \in {"new", "open", "pending"}
    /\ projects[tickets[t].project_id] = "active"

\* ticket t has been dequeued and processed: it has a session, its latest
\* session has ended, and it has left in_progress for one of the statuses
\* process_ticket leaves behind
RunEnded(t) ==
    /\ sessions[t] # <<>>
    /\ sessions[t][Len(sessions[t])] # "running"
    /\ tickets[t].status \in {"awaiting_input", "stuck", "failed", "open", "pending"}

\* C40: with finitely many tickets, a worker slot, no user command and every
\* agent run exiting, every runnable ticket of an active project is
\* eventually dequeued and eventually leaves in_progress for awaiting_input,
\* stuck, failed, open or pending: no runnable ticket is left without a worker
\* for ever.
C40_RunnableTicketsAreProcessed ==
    \A t \in TicketIds : RunnableTicket(t) ~> RunEnded(t)

\* every ticket has been processed once, some to awaiting_input and some to
\* failed, and the workers have ended
C40_Witness ==
    /\ \A t \in DOMAIN tickets :
          /\ tickets[t].status \in {"awaiting_input", "failed"}
          /\ sessions[t] \in {<<"completed">>, <<"failed">>}
    /\ \E t \in DOMAIN tickets : tickets[t].status = "awaiting_input"
    /\ \E t \in DOMAIN tickets : tickets[t].status = "failed"
    /\ \A w \in ThreadIds : ~Th(w).alive
    /\ \E p \in DOMAIN threads : Len(threads[p]) = MaxThreads

====
